---- MODULE Spec2Model ----
(***************************************************************************)
(* Model of the OPC-UA client repository: the address-space walker         *)
(* (collect_items) and the variant converter (_convert_string_to_variant). *)
(*                                                                         *)
(* Text is modelled as a sequence of code points, so that lower(), join()  *)
(* and Python's string comparison are computed and not assumed.            *)
(***************************************************************************)
EXTENDS Integers, Sequences, FiniteSets, TLC

(***************************************************************************)
(* Bounds                                                                  *)
(***************************************************************************)
NumNodes == 3

Nodes == 1..NumNodes

\* A frame with this many names above it has more ancestors than there are
\* nodes: its chain repeats a node that answered every read, so the loop
\* descends that cycle again and again and the walk never ends.
MaxDepth == NumNodes

(***************************************************************************)
(* Values of the program                                                   *)
(***************************************************************************)
\* Optional[Node] = None
None == 0

\* the traversal root: client.nodes.objects in the model classes, the node
\* handed to collect_items(root) in opc_client.py; its class is whatever the
\* server answers for it
Root == 1

\* ua.NodeClass: Object, Variable, Method, and the classes the walker does
\* not list (ObjectType, VariableType, ReferenceType, DataType, View)
NodeClasses == {"Object", "Variable", "Method", "Other"}

\* The three remote reads of one loop iteration; each may raise.
Reads == {"read_node_class", "read_display_name", "get_children"}

(***************************************************************************)
(* Text                                                                    *)
(***************************************************************************)
\* "a", "B", "b" and the empty text, as code points
Txt_a == <<97>>
Txt_B == <<66>>
Txt_b == <<98>>
Txt_empty == <<>>
Slash == <<47>>

DisplayTexts == {Txt_a, Txt_B, Txt_b, Txt_empty}

\* str.lower() on one code point (ASCII letters)
LowerChar(c) == IF c >= 65 /\ c <= 90 THEN c + 32 ELSE c

\* str.lower()
Lower(s) == [i \in 1..Len(s) |-> LowerChar(s[i])]

RECURSIVE Join(_)
\* "/".join(path)
Join(path) ==
    IF path = <<>> THEN <<>>
    ELSE IF Len(path) = 1 THEN path[1]
    ELSE path[1] \o Slash \o Join(Tail(path))

RECURSIVE StrLess(_, _)
\* Python's str.__lt__: lexicographic by code point, a proper prefix is less
StrLess(s, t) ==
    IF t = <<>> THEN FALSE
    ELSE IF s = <<>> THEN TRUE
    ELSE IF s[1] # t[1] THEN s[1] < t[1]
    ELSE StrLess(Tail(s), Tail(t))

\* str(node.nodeid): "i=<n>"
NodeIdStr(n) == <<105, 61, 48 + n>>

(***************************************************************************)
(* _convert_string_to_variant                                              *)
(***************************************************************************)
\* the ua.VariantType tags the converter tells apart, and "String" for
\* every tag it passes through
IntegerTypes == {"Int16", "Int32", "Int64", "UInt16", "UInt32", "UInt64"}
FloatTypes == {"Float", "Double"}
VariantTypes == IntegerTypes \cup FloatTypes \cup {"Boolean", "String"}

IsDigit(c) == c >= 48 /\ c <= 57
IsSpace(c) == c \in {9, 10, 11, 12, 13, 32}
IsSign(c) == c = 43 \/ c = 45
IsUnderscore(c) == c = 95

RECURSIVE LStrip(_)
LStrip(s) == IF s # <<>> /\ IsSpace(s[1]) THEN LStrip(Tail(s)) ELSE s

RECURSIVE RStrip(_)
RStrip(s) ==
    IF s # <<>> /\ IsSpace(s[Len(s)]) THEN RStrip(SubSeq(s, 1, Len(s) - 1)) ELSE s

\* str.strip(), as int() and float() apply it
Strip(s) == RStrip(LStrip(s))

\* decimal digits, single underscores allowed between two digits
ValidDigits(s) ==
    /\ s # <<>>
    /\ IsDigit(s[1]) /\ IsDigit(s[Len(s)])
    /\ \A i \in 1..Len(s) : IsDigit(s[i]) \/ IsUnderscore(s[i])
    /\ \A i \in 1..(Len(s) - 1) : ~(IsUnderscore(s[i]) /\ IsUnderscore(s[i + 1]))

RECURSIVE DigitsValue(_, _)
\* the number the digits of s denote after acc, underscores skipped
DigitsValue(acc, s) ==
    IF s = <<>> THEN acc
    ELSE IF IsUnderscore(s[1]) THEN DigitsValue(acc, Tail(s))
    ELSE DigitsValue(10 * acc + (s[1] - 48), Tail(s))

DigitCount(s) == Cardinality({i \in 1..Len(s) : IsDigit(s[i])})

Unsigned(s) == IF s # <<>> /\ IsSign(s[1]) THEN Tail(s) ELSE s
IsNegative(s) == s # <<>> /\ s[1] = 45

ValueError == [raised |-> TRUE, type |-> "ValueError"]

PyInt_Magnitude(t) ==
    LET s == Strip(t)
    IN  IF ValidDigits(Unsigned(s))
        THEN [raised |-> FALSE, type |-> "int", value |-> DigitsValue(0, Unsigned(s))]
        ELSE ValueError

\* int(text): base 10, surrounding whitespace and one sign accepted, no
\* bound on the value
PyInt(t) ==
    LET s == Strip(t)
    IN  IF ValidDigits(Unsigned(s))
        THEN [raised |-> FALSE, type |-> "int",
              value |-> (IF IsNegative(s) THEN -1 ELSE 1) * DigitsValue(0, Unsigned(s))]
        ELSE ValueError

\* the first position of s holding a code point of C, 0 if there is none
FirstOf(s, C) ==
    IF \E i \in 1..Len(s) : s[i] \in C
    THEN CHOOSE i \in 1..Len(s) : s[i] \in C /\ \A j \in 1..(i - 1) : s[j] \notin C
    ELSE 0

RECURSIVE Normalize(_, _)
\* mant * 10^exp without trailing zeros in mant
Normalize(mant, exp) ==
    IF mant = 0 THEN [mant |-> 0, exp |-> 0]
    ELSE IF mant % 10 = 0 THEN Normalize(mant \div 10, exp + 1)
    ELSE [mant |-> mant, exp |-> exp]

\* "inf", "infinity", "nan"
InfTexts == {<<105, 110, 102>>, <<105, 110, 102, 105, 110, 105, 116, 121>>}
NanTexts == {<<110, 97, 110>>}

\* float(text): the decimal as sign, mantissa and power of ten
PyFloat(t) ==
    LET s == Strip(t)
        u == Unsigned(s)
        e == FirstOf(u, {101, 69})
        m == IF e = 0 THEN u ELSE SubSeq(u, 1, e - 1)
        x == IF e = 0 THEN <<>> ELSE SubSeq(u, e + 1, Len(u))
        d == FirstOf(m, {46})
        ip == IF d = 0 THEN m ELSE SubSeq(m, 1, d - 1)
        fp == IF d = 0 THEN <<>> ELSE SubSeq(m, d + 1, Len(m))
        expOk == e = 0 \/ ValidDigits(Unsigned(x))
        mantOk == /\ ip = <<>> \/ ValidDigits(ip)
                  /\ fp = <<>> \/ ValidDigits(fp)
                  /\ ip # <<>> \/ fp # <<>>
        expo == IF e = 0 THEN 0
                ELSE (IF IsNegative(x) THEN -1 ELSE 1) * DigitsValue(0, Unsigned(x))
    IN  IF Lower(u) \in InfTexts
        THEN [raised |-> FALSE, type |-> "float",
              value |-> [neg |-> IsNegative(s), special |-> "inf"]]
        ELSE IF Lower(u) \in NanTexts
        THEN [raised |-> FALSE, type |-> "float",
              value |-> [neg |-> FALSE, special |-> "nan"]]
        ELSE IF mantOk /\ expOk
        THEN [raised |-> FALSE, type |-> "float",
              value |-> [neg |-> IsNegative(s), special |-> "finite",
                         dec |-> Normalize(DigitsValue(DigitsValue(0, ip), fp),
                                           expo - DigitCount(fp))]]
        ELSE ValueError

\* ("1", "true", "t", "yes", "y")
BoolTrueTexts ==
    {<<49>>, <<116, 114, 117, 101>>, <<116>>, <<121, 101, 115>>, <<121>>}

\* "0", "false", "f", "no", "n"
BoolFalseTexts ==
    {<<48>>, <<102, 97, 108, 115, 101>>, <<102>>, <<110, 111>>, <<110>>}

ConvertStringToVariant_BoolStrict(t, vt) ==
    IF vt \in IntegerTypes THEN PyInt(t)
    ELSE IF vt \in FloatTypes THEN PyFloat(t)
    ELSE IF vt = "Boolean"
    THEN IF Lower(t) \in BoolTrueTexts \cup BoolFalseTexts
         THEN [raised |-> FALSE, type |-> "bool", value |-> Lower(t) \in BoolTrueTexts]
         ELSE ValueError
    ELSE [raised |-> FALSE, type |-> "str", value |-> t]

\* the converter: a ValueError of int() or float() is raised again as a
\* ValueError, nothing else is caught
ConvertStringToVariant(t, vt) ==
    IF vt \in IntegerTypes THEN PyInt(t)
    ELSE IF vt \in FloatTypes THEN PyFloat(t)
    ELSE IF vt = "Boolean"
    THEN [raised |-> FALSE, type |-> "bool", value |-> Lower(t) \in BoolTrueTexts]
    ELSE [raised |-> FALSE, type |-> "str", value |-> t]

NotConverted == [raised |-> FALSE, type |-> "none"]

(***************************************************************************)
(* State                                                                   *)
(***************************************************************************)
VARIABLES
    srvClass,      \* remote: node -> NodeClass answered by read_node_class
    srvText,       \* remote: node -> DisplayName.Text answered by read_display_name
    srvChildren,   \* remote: node -> sequence of nodes answered by get_children
    srvFail,       \* remote: node -> the reads that raise on that node
    stack,         \* collect_items: the work stack
    items,         \* collect_items: the entries appended so far
    pc,            \* collect_items: "walk" | "done" | "raised" | "diverged"
    result,        \* collect_items: the returned list
    pops,          \* collect_items: node -> how often stack.pop() has handed it out
    text,          \* _convert_string_to_variant: the operator's input text
    vtype,         \* _convert_string_to_variant: the ua.VariantType asked for
    conv,          \* _convert_string_to_variant: its outcome, once it has run
    entries,       \* _group_by_class, _group_by_child: the list handed in
    byClass,       \* _group_by_class: the dict returned, once it has run
    byChild,       \* _group_by_child: the dict returned, once it has run
    variant,       \* which program runs: "mvc" (controller.py) | "grouped" (client/) | "script" (opc_client.py)
    session,       \* the remote session: "closed" | "connected" | "released"
    disconnects,   \* how often client.disconnect() was called
    nav,           \* the prompt the run waits at; "new" before the constructor, "start" before run(), "ended" after
    ended,         \* how run() ended, "running" until then
    menu,          \* _main_loop: items of the current iteration
    sel,           \* _handle_selection: the entry chosen, None outside
    cur,           \* _variable_interaction: (vtype, value) of the last read
    inargs,        \* _method_interaction: the descriptors prompted for
    argTexts,      \* prompt_method_args: the texts entered so far
    descReads,     \* the outcomes of the descriptor reads of the current call
    outcome,       \* call_method: what it returned or raised
    asked,         \* the prompt the last operator input was given at
    input,         \* the last operator input
    shown,         \* what the last handler showed: "none" | "info" | "error" | "result"
    issued,        \* the writes and invokes the last handler sent to the server
    srvValue,      \* remote: node -> the value get_value answers
    srvType,       \* remote: node -> the tag read_data_type_as_variant_type answers
    cfgFile        \* setup.txt: whether it exists, and its lines

vars == <<srvClass, srvText, srvChildren, srvFail, stack, items, pc, result, pops,
          text, vtype, conv, entries, byClass, byChild,
          variant, session, disconnects, nav, ended, menu, sel, cur, inargs,
          argTexts, descReads, outcome, asked, input, shown, issued,
          srvValue, srvType, cfgFile>>
srvVars == <<srvClass, srvText, srvChildren, srvFail>>
walkVars == <<stack, items, pc, result, pops>>
convVars == <<text, vtype, conv>>
grpVars == <<entries, byClass, byChild>>
sessVars == <<session, disconnects>>
callVars == <<descReads, outcome, issued>>
navVars == <<variant, sessVars, nav, ended, menu, sel, cur, inargs, argTexts,
             callVars, asked, input, shown, srvValue, srvType, cfgFile>>

(***************************************************************************)
(* collect_items                                                           *)
(***************************************************************************)
NodeEntry(node, node_class, path, parent_object) ==
    [node |-> node, node_class |-> node_class, path |-> path,
     parent_object |-> parent_object]

Frame(node, path, parent_obj) ==
    [node |-> node, path |-> path, parent_obj |-> parent_obj]

\* the try block of lines 114-119 raises
Unreadable_NameIgnored(node) == "read_node_class" \in srvFail[node]

Unreadable(node) ==
    "read_node_class" \in srvFail[node] \/ "read_display_name" \in srvFail[node]

\* name = disp.Text or str(node.nodeid)
NameOf(node) ==
    IF srvText[node] = <<>> THEN NodeIdStr(node) ELSE srvText[node]

IsListed_OtherToo(node_class) == TRUE

\* node_class in (Object, Variable, Method)
IsListed(node_class) == node_class \in {"Object", "Variable", "Method"}

\* await node.get_children(): the list, or an exception
GetChildren(node) ==
    IF "get_children" \in srvFail[node]
    THEN [raised |-> TRUE, value |-> <<>>]
    ELSE [raised |-> FALSE, value |-> srvChildren[node]]

ChildrenOf_NoExcept(node) == GetChildren(node)

\* try: children = await node.get_children() / except Exception: children = []
ChildrenOf(node) ==
    IF GetChildren(node).raised
    THEN [raised |-> FALSE, value |-> <<>>]
    ELSE GetChildren(node)

NextParent_Always(node, node_class, parent_obj) == node

NextParent_Never(node, node_class, parent_obj) == parent_obj

NextParent_OtherToo(node, node_class, parent_obj) ==
    IF node_class \in {"Object", "Other"} THEN node ELSE parent_obj

\* node if node_class == ua.NodeClass.Object else parent_obj
NextParent(node, node_class, parent_obj) ==
    IF node_class = "Object" THEN node ELSE parent_obj

AppendItem_Dedup(its, e) ==
    IF \E i \in 1..Len(its) : its[i].path = e.path \/ its[i].node = e.node
    THEN its ELSE Append(its, e)

\* items.append(NodeEntry(...))
AppendItem(its, e) == Append(its, e)

PushChildren_OldPath(stk, children, new_path, parent) ==
    stk \o [i \in 1..Len(children) |->
              Frame(children[i],
                    IF new_path = <<>> THEN <<>>
                    ELSE SubSeq(new_path, 1, Len(new_path) - 1),
                    parent)]

PushChildren_Twice(stk, children, new_path, parent) ==
    stk \o [i \in 1..2 * Len(children) |->
              Frame(children[((i - 1) % Len(children)) + 1], new_path, parent)]

\* for child in children: stack.append((child, new_path, parent))
PushChildren(stk, children, new_path, parent) ==
    stk \o [i \in 1..Len(children) |-> Frame(children[i], new_path, parent)]

SortKey_NoLower(e) == Join(e.path)

\* key=lambda e: "/".join(e.path).lower()
SortKey(e) == Lower(Join(e.path))

RECURSIVE InsertSorted(_, _)
\* e goes behind every element whose key is not greater (stable)
InsertSorted(sorted, e) ==
    IF sorted = <<>> THEN <<e>>
    ELSE IF StrLess(SortKey(e), SortKey(sorted[1])) THEN <<e>> \o sorted
    ELSE <<sorted[1]>> \o InsertSorted(Tail(sorted), e)

RECURSIVE SortFrom(_, _)
SortFrom(sorted, its) ==
    IF its = <<>> THEN sorted
    ELSE SortFrom(InsertSorted(sorted, its[1]), Tail(its))

\* items.sort(key=...): list.sort is stable
SortItems(its) == SortFrom(<<>>, its)

\* no frame popped yet
NoPops == [n \in Nodes |-> 0]

\* one iteration of `while stack:` (lines 112-142)
WalkStep ==
    /\ pc = "walk"
    /\ stack # <<>>
    /\ LET fr == stack[Len(stack)]
           rest == SubSeq(stack, 1, Len(stack) - 1)
           node == fr.node
       IN  /\ Len(fr.path) < MaxDepth
           /\ pops' = [pops EXCEPT ![node] = @ + 1]
           /\ IF Unreadable(node)
              THEN /\ stack' = rest
                   /\ items' = items
                   /\ pc' = pc
              ELSE LET node_class == srvClass[node]
                       new_path == fr.path \o <<NameOf(node)>>
                       children == ChildrenOf(node)
                   IN  /\ items' =
                            IF IsListed(node_class)
                            THEN AppendItem(items,
                                   NodeEntry(node, node_class, new_path, fr.parent_obj))
                            ELSE items
                       /\ IF children.raised
                          THEN \* an exception that nothing catches leaves the coroutine
                               /\ pc' = "raised"
                               /\ stack' = rest
                          ELSE /\ pc' = pc
                               /\ stack' = PushChildren(rest, children.value, new_path,
                                               NextParent(node, node_class, fr.parent_obj))
    /\ UNCHANGED <<srvVars, result, convVars, grpVars, navVars>>

\* the loop pops a frame that lies on a cycle of the graph: from here on it
\* pushes a deeper frame of the same cycle for every one it pops, `while
\* stack:` never sees an empty stack and lines 144-146 are never reached.
\* The endless tail of the run is kept as the one state "diverged".
WalkDiverge ==
    /\ pc = "walk"
    /\ stack # <<>>
    /\ Len(stack[Len(stack)].path) >= MaxDepth
    /\ pc' = "diverged"
    /\ UNCHANGED <<srvVars, stack, items, result, pops, convVars, grpVars, navVars>>

\* the loop ends: sort and return (lines 144-146)
WalkReturn ==
    /\ pc = "walk"
    /\ stack = <<>>
    /\ result' = SortItems(items)
    /\ pc' = "done"
    /\ UNCHANGED <<srvVars, stack, items, pops, convVars, grpVars, navVars>>

(***************************************************************************)
(* _group_by_class, _group_by_child                                        *)
(***************************************************************************)
\* ua.NodeClass(it.node_class).name of the classes an entry can have
ClassName(node_class) ==
    CASE node_class = "Method" -> <<77, 101, 116, 104, 111, 100>>
      [] node_class = "Object" -> <<79, 98, 106, 101, 99, 116>>
      [] node_class = "Variable" -> <<86, 97, 114, 105, 97, 98, 108, 101>>

\* a dict is kept as the sequence of its (key, value) pairs in insertion
\* order, which is the order Python iterates it in
DictKeys(d) == [i \in 1..Len(d) |-> d[i].key]

\* tmp[key].append(it) on a defaultdict(list)
DictAppend(d, key, it) ==
    IF \E i \in 1..Len(d) : d[i].key = key
    THEN [i \in 1..Len(d) |->
            IF d[i].key = key THEN [d[i] EXCEPT !.items = Append(@, it)] ELSE d[i]]
    ELSE Append(d, [key |-> key, items |-> <<it>>])

\* grouped[k]
DictGet(d, key) == d[CHOOSE i \in 1..Len(d) : d[i].key = key].items

RECURSIVE GroupInto(_, _, _)
\* for it in items: tmp[key].append(it), keys[i] being the key of its[i]
GroupInto(d, its, keys) ==
    IF its = <<>> THEN d
    ELSE GroupInto(DictAppend(d, keys[1], its[1]), Tail(its), Tail(keys))

RECURSIVE InsertKey(_, _)
InsertKey(sorted, k) ==
    IF sorted = <<>> THEN <<k>>
    ELSE IF StrLess(k, sorted[1]) THEN <<k>> \o sorted
    ELSE <<sorted[1]>> \o InsertKey(Tail(sorted), k)

RECURSIVE SortedKeys(_)
\* sorted(tmp.keys()): ascending in Python's order of str
SortedKeys(keys) ==
    IF keys = <<>> THEN <<>>
    ELSE InsertKey(SortedKeys(Tail(keys)), keys[1])

Ordered_AsInserted(d) == d

\* for k in sorted(tmp.keys()): grouped[k] = tmp[k]
Ordered(d) ==
    LET ks == SortedKeys(DictKeys(d))
    IN  [i \in 1..Len(ks) |-> [key |-> ks[i], items |-> DictGet(d, ks[i])]]

\* key = ua.NodeClass(it.node_class).name
ClassKey(it) == ClassName(it.node_class)

ChildKey_FirstName(it) == it.path[1]

\* key = it.path[1] if len(it.path) > 1 else it.path[0]
ChildKey(it) == IF Len(it.path) > 1 THEN it.path[2] ELSE it.path[1]

Returned(v) == [raised |-> FALSE, type |-> "dict", value |-> v]

IndexError == [raised |-> TRUE, type |-> "IndexError"]

\* _group_by_class(items)
GroupByClass(its) ==
    Returned(Ordered(GroupInto(<<>>, its, [i \in 1..Len(its) |-> ClassKey(its[i])])))

GroupByChild_SecondNameOnly(its) ==
    IF \E i \in 1..Len(its) : Len(its[i].path) < 2
    THEN IndexError
    ELSE Returned(Ordered(GroupInto(<<>>, its,
                                    [i \in 1..Len(its) |-> its[i].path[2]])))

\* _group_by_child(items); it.path[0] of an empty path raises IndexError
GroupByChild(its) ==
    IF \E i \in 1..Len(its) : its[i].path = <<>>
    THEN IndexError
    ELSE Returned(Ordered(GroupInto(<<>>, its,
                                    [i \in 1..Len(its) |-> ChildKey(its[i])])))

NotGrouped == [raised |-> FALSE, type |-> "none"]

GroupIdle == entries = <<>> /\ byClass = NotGrouped /\ byChild = NotGrouped

\* one call of _group_by_class(entries)
GroupByClassCall ==
    /\ pc = "group"
    /\ byClass = NotGrouped
    /\ byClass' = GroupByClass(entries)
    /\ UNCHANGED <<srvVars, walkVars, convVars, entries, byChild, navVars>>

\* one call of _group_by_child(entries)
GroupByChildCall ==
    /\ pc = "group"
    /\ byChild = NotGrouped
    /\ byChild' = GroupByChild(entries)
    /\ UNCHANGED <<srvVars, walkVars, convVars, entries, byClass, navVars>>

(***************************************************************************)
(* call_method                                                             *)
(***************************************************************************)
\* what reading the InputArguments of a method gives: the tags of its
\* descriptors (ua.VariantType(arg.DataType) taken to name the tag), or the
\* exception of get_child / get_value
DescList(tags) == [raised |-> FALSE, value |-> tags]

DescUnreadable == [raised |-> TRUE, type |-> "UaError", op |-> "get_child"]

\* raise ValueError("Argumentanzahl stimmt nicht")
ArgCountMismatch ==
    [raised |-> TRUE, type |-> "ValueError", msg |-> "Argumentanzahl stimmt nicht"]

\* uaclient.call_method raises
InvokeFailed == [raised |-> TRUE, type |-> "UaError", op |-> "call_method"]

InvokeResult == [raised |-> FALSE, type |-> "result"]

NotCalled == [raised |-> FALSE, type |-> "none"]

\* uaclient.call_method(parent.nodeid, method_node.nodeid, *parsed_args)
Invoke(parent, method_node, parsed_args) ==
    [op |-> "invoke", parent |-> parent, node |-> method_node, args |-> parsed_args]

\* the converter's value as it is handed on
Parsed(c) == [type |-> c.type, value |-> c.value]

\* model.py lets a failing descriptor read escape; opc_model.py wraps the
\* read in try/except and goes on with inargs = []
Lenient(v) == v = "grouped"

CallMethod_NoCountCheck(v, desc, parent, method_node, arg_texts, invokeOk) ==
    IF desc.raised /\ ~Lenient(v)
    THEN [outcome |-> desc, issued |-> <<>>]
    ELSE LET ia == IF desc.raised THEN <<>> ELSE desc.value
             n == IF Len(ia) < Len(arg_texts) THEN Len(ia) ELSE Len(arg_texts)
             parsed == [i \in 1..n |-> ConvertStringToVariant(arg_texts[i], ia[i])]
         IN  IF \E i \in 1..n : parsed[i].raised
             THEN [outcome |-> ValueError, issued |-> <<>>]
             ELSE [outcome |-> IF invokeOk THEN InvokeResult ELSE InvokeFailed,
                   issued |-> <<Invoke(parent, method_node,
                                       [i \in 1..n |-> Parsed(parsed[i])])>>]

\* call_method(parent, method_node, arg_texts) of the model class of
\* variant v, desc being what its read of the descriptors gives: what it
\* returns or raises, and the invokes it has sent
CallMethod(v, desc, parent, method_node, arg_texts, invokeOk) ==
    IF desc.raised /\ ~Lenient(v)
    THEN [outcome |-> desc, issued |-> <<>>]
    ELSE LET ia == IF desc.raised THEN <<>> ELSE desc.value
         IN  IF Len(ia) # Len(arg_texts)
             THEN [outcome |-> ArgCountMismatch, issued |-> <<>>]
             ELSE LET parsed == [i \in 1..Len(ia) |->
                                   ConvertStringToVariant(arg_texts[i], ia[i])]
                  IN  IF \E i \in 1..Len(ia) : parsed[i].raised
                      THEN [outcome |-> ValueError, issued |-> <<>>]
                      ELSE [outcome |-> IF invokeOk THEN InvokeResult ELSE InvokeFailed,
                            issued |-> <<Invoke(parent, method_node,
                                                [i \in 1..Len(ia) |-> Parsed(parsed[i])])>>]

(***************************************************************************)
(* load_config and the constructor                                         *)
(***************************************************************************)
\* line.partition("="): the text before the first "=" ...
PartitionKey(line) ==
    LET i == FirstOf(line, {61})
    IN  IF i = 0 THEN line ELSE SubSeq(line, 1, i - 1)

\* ... and the text after it, empty when the line has no "="
PartitionVal(line) ==
    LET i == FirstOf(line, {61})
    IN  IF i = 0 THEN <<>> ELSE SubSeq(line, i + 1, Len(line))

\* cfg[key] = val
CfgSet(cfg, key, val) ==
    IF \E i \in DOMAIN cfg : cfg[i].key = key
    THEN [i \in DOMAIN cfg |->
            IF cfg[i].key = key THEN [key |-> key, val |-> val] ELSE cfg[i]]
    ELSE Append(cfg, [key |-> key, val |-> val])

\* `not cfg.get(key)`: the key is absent or its value is the empty text
CfgFalsy(cfg, key) ==
    \A i \in DOMAIN cfg : cfg[i].key = key => cfg[i].val = <<>>

RECURSIVE ReadLines(_, _)
\* for line in fh: strip; skip blank lines and comments; partition
ReadLines(cfg, lines) ==
    IF lines = <<>> THEN cfg
    ELSE LET line == Strip(lines[1])
         IN  IF line = <<>> \/ line[1] = 35
             THEN ReadLines(cfg, Tail(lines))
             ELSE ReadLines(CfgSet(cfg, Lower(Strip(PartitionKey(line))),
                                   Strip(PartitionVal(line))),
                            Tail(lines))

\* load_config(path): the dict, or the exception of open()
LoadConfig(file) ==
    IF file.exists
    THEN [raised |-> FALSE, value |-> ReadLines(<<>>, file.lines)]
    ELSE [raised |-> TRUE, value |-> <<>>]

\* "endpoint"
Txt_endpoint == <<101, 110, 100, 112, 111, 105, 110, 116>>

\* "endpoint=x", "endpoint=", " Endpoint = x ", "endpoint", "#endpoint=x",
\* "u=v" and the empty line
Cfg_Given == Txt_endpoint \o <<61, 120>>
Cfg_Empty == Txt_endpoint \o <<61>>
Cfg_Spaced == <<32, 69>> \o Tail(Txt_endpoint) \o <<32, 61, 32, 120, 32>>
Cfg_Bare == Txt_endpoint
Cfg_Comment == <<35>> \o Txt_endpoint \o <<61, 120>>
Cfg_Other == <<117, 61, 118>>

\* a setup.txt that names an endpoint
DefaultConfig == [exists |-> TRUE, lines |-> <<Cfg_Given>>]

\* the exit status of the process: 0 when asyncio.run returns or the
\* exception is one the __main__ block catches, 1 for sys.exit(1) and for
\* an exception that reaches the interpreter
ExitStatus(how) ==
    IF how \in {"returned", "quit", "interrupt", "SystemExit"} THEN 0 ELSE 1

(***************************************************************************)
(* run, _main_loop and the interactions                                    *)
(***************************************************************************)
\* no value read yet
NoValue == [vtype |-> "none"]

\* the value a variable holds before the run writes it
InitialValue == [type |-> "initial"]

NavIdle ==
    /\ variant = "mvc"
    /\ session = "closed"
    /\ disconnects = 0
    /\ nav = "idle"
    /\ ended = "running"
    /\ menu = <<>>
    /\ sel = None
    /\ cur = NoValue
    /\ inargs = <<>>
    /\ argTexts = <<>>
    /\ descReads = <<>>
    /\ outcome = NotCalled
    /\ asked = "none"
    /\ input = <<>>
    /\ shown = "none"
    /\ issued = <<>>
    /\ srvValue = [n \in Nodes |-> InitialValue]
    /\ srvType = [n \in Nodes |-> "String"]
    /\ cfgFile = DefaultConfig

RECURSIVE WalkFrom(_, _)
\* the loop of collect_items run to its end: the list it returns
WalkFrom(stk, its) ==
    IF stk = <<>> THEN SortItems(its)
    ELSE LET fr == stk[Len(stk)]
             rest == SubSeq(stk, 1, Len(stk) - 1)
             node == fr.node
         IN  IF Unreadable(node) THEN WalkFrom(rest, its)
             ELSE LET node_class == srvClass[node]
                      new_path == fr.path \o <<NameOf(node)>>
                  IN  WalkFrom(
                        PushChildren(rest, ChildrenOf(node).value, new_path,
                                     NextParent(node, node_class, fr.parent_obj)),
                        IF IsListed(node_class)
                        THEN AppendItem(its, NodeEntry(node, node_class, new_path,
                                                       fr.parent_obj))
                        ELSE its)

\* await self.model.collect_items()
CollectItems == WalkFrom(<<Frame(Root, <<>>, None)>>, <<>>)

\* the part of the state the handlers of the run work on
Here ==
    [session |-> session, disconnects |-> disconnects, nav |-> nav,
     ended |-> ended, menu |-> menu, sel |-> sel, cur |-> cur,
     inargs |-> inargs, argTexts |-> argTexts, descReads |-> descReads,
     outcome |-> outcome, shown |-> shown, issued |-> issued,
     srvValue |-> srvValue]

\* the handler leaves the state st behind, having worked on the operator
\* input txt given at the prompt at
Becomes(st, at, txt) ==
    /\ session' = st.session
    /\ disconnects' = st.disconnects
    /\ nav' = st.nav
    /\ ended' = st.ended
    /\ menu' = st.menu
    /\ sel' = st.sel
    /\ cur' = st.cur
    /\ inargs' = st.inargs
    /\ argTexts' = st.argTexts
    /\ descReads' = st.descReads
    /\ outcome' = st.outcome
    /\ shown' = st.shown
    /\ issued' = st.issued
    /\ srvValue' = st.srvValue
    /\ asked' = at
    /\ input' = txt
    /\ UNCHANGED <<variant, srvType, cfgFile, srvVars, walkVars, convVars, grpVars>>

\* a handler starts with nothing shown and nothing sent
Fresh(st) == [st EXCEPT !.shown = "none", !.issued = <<>>]

AExit_OnlyOnQuit(st, how) ==
    IF how = "quit" /\ st.session = "connected"
    THEN [st EXCEPT !.session = "released", !.disconnects = @ + 1]
    ELSE st

\* __aexit__: disconnect(): if self._client: await self._client.disconnect()
AExit(st, how) ==
    IF st.session = "connected"
    THEN [st EXCEPT !.session = "released", !.disconnects = @ + 1]
    ELSE st

Connect_Skipped(st) == st

\* __aenter__: connect(): self._client = Client(url=self.endpoint);
\* await self._client.connect()
Connect(st) == [st EXCEPT !.session = "connected"]

\* run() is left, by the end of _main_loop or by an exception passing
\* through `async with self.model`
Leave(st, how) == [AExit(st, how) EXCEPT !.nav = "ended", !.ended = how]

LoopTop_Cached(st) ==
    [st EXCEPT !.nav = "root",
               !.menu = IF st.session = "connected" /\ st.nav # "start"
                        THEN st.menu ELSE CollectItems,
               !.sel = None,
               !.cur = NoValue, !.inargs = <<>>, !.argTexts = <<>>,
               !.descReads = <<>>, !.outcome = NotCalled]

\* assert self._client is not None, "Client nicht verbunden": connect()
\* sets the client, disconnect() sets it back to None
ClientIsNone(st) == st.session # "connected"

AssertionError == [raised |-> TRUE, type |-> "AssertionError"]

\* the top of `while True` in _main_loop: collect_items, then the menu;
\* collect_items of model.py and of client/opc_model.py starts with the
\* assertion, collect_items(root) of opc_client.py has none
LoopTop(st) ==
    IF variant # "script" /\ ClientIsNone(st) THEN Leave(st, "AssertionError")
    ELSE [st EXCEPT !.nav = "root", !.menu = CollectItems, !.sel = None,
                    !.cur = NoValue, !.inargs = <<>>, !.argTexts = <<>>,
                    !.descReads = <<>>, !.outcome = NotCalled]

ReadVariable_Remembered(st, node, ok) ==
    IF ok
    THEN [st EXCEPT !.cur = IF @ = NoValue
                            THEN [vtype |-> srvType[node], value |-> st.srvValue[node]]
                            ELSE @,
                    !.nav = "variable"]
    ELSE IF variant = "script" THEN LoopTop([st EXCEPT !.shown = "error"])
    ELSE Leave(st, "read_variable raised")

\* vtype, value = await self.model.read_variable(node) at the top of the
\* loop of _variable_interaction, nothing catching what it raises;
\* interact_with_variable of opc_client.py reads inside try, prints
\* "Lesefehler" and returns to the menu
ReadVariable(st, node, ok) ==
    IF ok
    THEN [st EXCEPT !.cur = [vtype |-> srvType[node], value |-> st.srvValue[node]],
                    !.nav = "variable"]
    ELSE IF variant = "script" THEN LoopTop([st EXCEPT !.shown = "error"])
    ELSE Leave(st, "read_variable raised")

\* result = await self.model.call_method(...) in try / except Exception /
\* finally: pause()
CallAndPause(st, desc, invokeOk) ==
    LET r == CallMethod(variant, desc, st.sel.parent_object, st.sel.node,
                        st.argTexts, invokeOk)
    IN  [st EXCEPT !.descReads = Append(@, desc),
                   !.outcome = r.outcome,
                   !.issued = r.issued,
                   !.shown = IF r.outcome.raised THEN "error" ELSE "result",
                   !.nav = "pause"]

\* interact_with_method of opc_client.py once every text is converted:
\* client.uaclient.call_method in try / except Exception, then the prompt
\* of `finally`
ScriptCallAndPause(st, invokeOk) ==
    LET parsed == [i \in 1..Len(st.inargs) |->
                     Parsed(ConvertStringToVariant(st.argTexts[i], st.inargs[i]))]
    IN  [st EXCEPT !.outcome = IF invokeOk THEN InvokeResult ELSE InvokeFailed,
                   !.issued = <<Invoke(st.sel.parent_object, st.sel.node, parsed)>>,
                   !.shown = IF invokeOk THEN "result" ELSE "error",
                   !.nav = "pause"]

\* interact_with_method of opc_client.py: the text typed for a descriptor
\* is converted at once, outside the try around the call; a ValueError
\* passes through `finally` (its prompt is still shown) and on
ScriptArgTyped(st, invokeOk) ==
    LET i == Len(st.argTexts)
        c == ConvertStringToVariant(st.argTexts[i], st.inargs[i])
    IN  IF c.raised THEN [st EXCEPT !.outcome = ValueError, !.nav = "pause"]
        ELSE IF i = Len(st.inargs) THEN ScriptCallAndPause(st, invokeOk)
        ELSE st

\* _method_interaction of client/opc_controller.py after
\* show_method_details: call_method in try / except Exception; no prompt
\* follows, and _child_loop shows its list again. call_method of
\* client/opc_model.py starts with the assertion on the client, which
\* `except Exception` catches like any other error
GroupedCall(st, desc, invokeOk) ==
    LET r == CallMethod(variant, desc, st.sel.parent_object, st.sel.node,
                        st.argTexts, invokeOk)
    IN  IF ClientIsNone(st)
        THEN [st EXCEPT !.outcome = AssertionError, !.shown = "error",
                        !.nav = "child"]
        ELSE
        [st EXCEPT !.descReads = Append(@, desc),
                   !.outcome = r.outcome,
                   !.issued = r.issued,
                   !.shown = IF r.outcome.raised THEN "error" ELSE "result",
                   !.nav = "child"]

\* _method_interaction of client/opc_controller.py up to the first prompt
\* of show_method_details: "[Enter] ausfuehren" when there is no
\* descriptor, the prompt of the first descriptor otherwise
GroupedMethodInteraction(st, desc1) ==
    LET ia == IF desc1.raised THEN <<>> ELSE desc1.value
    IN  [st EXCEPT !.inargs = ia, !.argTexts = <<>>, !.descReads = <<desc1>>,
                   !.nav = IF ia = <<>> THEN "execute" ELSE "args"]

\* an exception is on its way through the prompt of `finally`
Pending(st) == variant = "script" /\ st.outcome = ValueError

MethodInteraction_PromptsOneLess(st, desc1, desc2, invokeOk) ==
    LET ia == IF desc1.raised \/ desc1.value = <<>> THEN <<>>
              ELSE SubSeq(desc1.value, 1, Len(desc1.value) - 1)
        st1 == [st EXCEPT !.inargs = ia, !.argTexts = <<>>, !.descReads = <<desc1>>]
    IN  IF ia # <<>> THEN [st1 EXCEPT !.nav = "args"]
        ELSE IF variant = "script" THEN ScriptCallAndPause(st1, invokeOk)
        ELSE CallAndPause(st1, desc2, invokeOk)

\* _method_interaction up to its first prompt
MethodInteraction(st, desc1, desc2, invokeOk) ==
    LET ia == IF desc1.raised THEN <<>> ELSE desc1.value
        st1 == [st EXCEPT !.inargs = ia, !.argTexts = <<>>, !.descReads = <<desc1>>]
    IN  IF ia # <<>> THEN [st1 EXCEPT !.nav = "args"]
        ELSE IF variant = "script" THEN ScriptCallAndPause(st1, invokeOk)
        ELSE CallAndPause(st1, desc2, invokeOk)

\* choice.isdigit(): decimal digits and the superscript digits
IsDigitChar(c) == IsDigit(c) \/ c \in {178, 179, 185}

IsDigitText(t) == t # <<>> /\ \A i \in 1..Len(t) : IsDigitChar(t[i])

\* (await ainput(...)).strip().lower()
Choice(txt) == Lower(Strip(txt))

\* "q", "b", "r", "w", "x", "m"
Txt_m == <<109>>
Txt_q == <<113>>
Txt_r == <<114>>
Txt_w == <<119>>

(***************************************************************************)
(* The remote address space the walker is run against                      *)
(***************************************************************************)
\* the elements of a set of nodes in ascending order
RECURSIVE Ascending(_)
Ascending(S) ==
    IF S = {} THEN <<>>
    ELSE LET m == CHOOSE x \in S : \A y \in S : x <= y
         IN  <<m>> \o Ascending(S \ {m})

Reverse(s) == [i \in 1..Len(s) |-> s[Len(s) + 1 - i]]

\* rooted trees over Nodes, every node's parent numbered below it
TreeShapes == {p \in [Nodes \ {Root} -> Nodes] : \A n \in Nodes \ {Root} : p[n] < n}

TreeChildren(p, n) == Ascending({c \in Nodes \ {Root} : p[c] = n})

\* "B", "a", "a", "B", "a", ...: siblings that share a name, and siblings
\* whose names differ in case
DefaultText(n) == IF n % 3 = 1 THEN Txt_B ELSE Txt_a

NoFail == [n \in Nodes |-> {}]

\* a tree, its children listed in either order, with at most one more
\* reference u -> v (a second parent, a duplicate, a back reference, a
\* self reference)
InitShape ==
    \E p \in TreeShapes, rev \in BOOLEAN, extra \in {<<>>} \cup (Nodes \X Nodes) :
        srvChildren = [n \in Nodes |->
            LET base == IF rev THEN Reverse(TreeChildren(p, n)) ELSE TreeChildren(p, n)
            IN  IF extra # <<>> /\ extra[1] = n THEN Append(base, extra[2]) ELSE base]

\* a tree in which the reads of one node raise
InitFaulty ==
    /\ \E p \in TreeShapes : srvChildren = [n \in Nodes |-> TreeChildren(p, n)]
    /\ \E bad \in Nodes, f \in (SUBSET Reads) \ {{}} :
        srvFail = [n \in Nodes |-> IF n = bad THEN f ELSE {}]
    /\ srvText = [n \in Nodes |-> DefaultText(n)]

\* a tree in which one node carries another display name
InitRenamed ==
    /\ \E p \in TreeShapes : srvChildren = [n \in Nodes |-> TreeChildren(p, n)]
    /\ \E n0 \in Nodes, t \in DisplayTexts :
        /\ t # DefaultText(n0)
        /\ srvText = [n \in Nodes |-> IF n = n0 THEN t ELSE DefaultText(n)]
    /\ srvFail = NoFail

\* a tree of nodes of one class in which any reads of any nodes raise
InitAnyFaults ==
    /\ \E p \in TreeShapes : srvChildren = [n \in Nodes |-> TreeChildren(p, n)]
    /\ srvFail \in [Nodes -> SUBSET Reads]
    /\ \E c \in NodeClasses : srvClass = [n \in Nodes |-> c]
    /\ srvText = [n \in Nodes |-> DefaultText(n)]

WalkInit ==
    /\ \/ /\ srvClass \in [Nodes -> NodeClasses]
          /\ \/ /\ InitShape
                /\ srvFail = NoFail
                /\ srvText = [n \in Nodes |-> DefaultText(n)]
             \/ InitFaulty
             \/ InitRenamed
       \/ InitAnyFaults
    /\ stack = <<Frame(Root, <<>>, None)>>
    /\ items = <<>>
    /\ pc = "walk"
    /\ result = <<>>
    /\ pops = NoPops
    /\ text = <<>>
    /\ vtype = "String"
    /\ conv = NotConverted
    /\ GroupIdle
    /\ NavIdle

WalkNext == WalkStep \/ WalkDiverge \/ WalkReturn

WalkSpec == WalkInit /\ [][WalkNext]_vars

(***************************************************************************)
(* The converter run on one operator input                                 *)
(***************************************************************************)
MaxTextLen == 3

\* "0", "4", "-", " ", "_", "."
FreeAlphabet == {48, 52, 45, 32, 95, 46}

FreeTexts == UNION {[1..k -> FreeAlphabet] : k \in 0..MaxTextLen}

\* the values at the edges of the 16-bit tags, the claim's own examples,
\* the texts the Boolean branch names, and texts of neither kind
SampleTexts ==
    { <<51, 50, 55, 54, 55>>,            \* "32767"
      <<51, 50, 55, 54, 56>>,            \* "32768"
      <<45, 51, 50, 55, 54, 56>>,        \* "-32768"
      <<45, 51, 50, 55, 54, 57>>,        \* "-32769"
      <<54, 53, 53, 51, 53>>,            \* "65535"
      <<54, 53, 53, 51, 54>>,            \* "65536"
      <<52, 48, 48, 48, 48>>,            \* "40000"
      <<45, 49>>,                        \* "-1"
      <<43, 55>>,                        \* "+7"
      <<52, 50, 46, 53>>,                \* "42.5"
      <<49, 101, 50>>,                   \* "1e2"
      <<110, 97, 110>>,                  \* "nan"
      <<49>>,                            \* "1"
      <<50>>,                            \* "2"
      <<116>>,                           \* "t"
      <<84>>,                            \* "T"
      <<121>>,                           \* "y"
      <<116, 114, 117, 101>>,            \* "true"
      <<84, 114, 117, 101>>,             \* "True"
      <<84, 82, 85, 69>>,                \* "TRUE"
      <<121, 101, 115>>,                 \* "yes"
      <<89, 69, 83>>,                    \* "YES"
      <<102, 97, 108, 115, 101>>,        \* "false"
      <<110, 111>>,                      \* "no"
      <<97, 98, 99>> }                   \* "abc"

RECURSIVE DecimalDigits(_)
\* the decimal digits of n > 0, most significant first
DecimalDigits(n) ==
    IF n = 0 THEN <<>> ELSE Append(DecimalDigits(n \div 10), 48 + (n % 10))

\* str(n) of an int: "0", or the digits without leading zero, "-" in front
\* of a negative number
PyStr(n) ==
    IF n = 0 THEN <<48>>
    ELSE IF n < 0 THEN <<45>> \o DecimalDigits(-n)
    ELSE DecimalDigits(n)

\* integers of one to ten digits, of either sign, at and around the edges
\* of the 16-bit tags and at the edge of the signed 32-bit tag
RoundTripInts ==
    { 0, 1, -1, 7, -7, 9, 10, -10, 99, 100, 101, 255, 256, 1000, -1000,
      32767, 32768, -32768, -32769, 65535, 65536, -65536,
      1000000, 123456789, 2147483647, -2147483647 }

RoundTripTexts == {PyStr(n) : n \in RoundTripInts}

\* the spelling of w with its letters in either case
Upper(c) == IF c >= 97 /\ c <= 122 THEN c - 32 ELSE c

CaseVariants(w) ==
    {s \in [1..Len(w) -> {w[i] : i \in 1..Len(w)} \cup {Upper(w[i]) : i \in 1..Len(w)}] :
        \A i \in 1..Len(w) : s[i] = w[i] \/ s[i] = Upper(w[i])}

\* "1", "true", "t", "yes", "y" in every mix of upper and lower case
TrueSpellings ==
    UNION {CaseVariants(w) :
             w \in {<<49>>, <<116, 114, 117, 101>>, <<116>>, <<121, 101, 115>>, <<121>>}}

\* texts a reader might take for true or false: "0", "on", "ye", "tru",
\* "1 ", " y", "true ", "11", "ja", "f", "n"
BoolNearMisses ==
    { <<48>>, <<111, 110>>, <<121, 101>>, <<116, 114, 117>>, <<49, 32>>,
      <<32, 121>>, <<116, 114, 117, 101, 32>>, <<49, 49>>, <<106, 97>>,
      <<102>>, <<110>> }

Texts ==
    FreeTexts \cup SampleTexts \cup RoundTripTexts \cup TrueSpellings \cup BoolNearMisses

ConvInit ==
    /\ text \in Texts
    /\ vtype \in VariantTypes
    /\ conv = NotConverted
    /\ srvClass = [n \in Nodes |-> "Object"]
    /\ srvText = [n \in Nodes |-> DefaultText(n)]
    /\ srvChildren = [n \in Nodes |-> <<>>]
    /\ srvFail = NoFail
    /\ stack = <<>>
    /\ items = <<>>
    /\ pc = "idle"
    /\ result = <<>>
    /\ pops = NoPops
    /\ GroupIdle
    /\ NavIdle

\* one call of _convert_string_to_variant(text, vtype)
Convert ==
    /\ conv = NotConverted
    /\ pc = "idle"
    /\ conv' = ConvertStringToVariant(text, vtype)
    /\ UNCHANGED <<srvVars, walkVars, text, vtype, grpVars, navVars>>

ConvNext == Convert

ConvSpec == ConvInit /\ [][ConvNext]_vars

(***************************************************************************)
(* The groupings run on one list of entries                                *)
(***************************************************************************)
MaxEntries == 4

\* "A", "x", "y"
Txt_A == <<65>>
Txt_x == <<120>>
Txt_y == <<121>>

\* paths of one and of two names; "x" and "B" are the keys of two paths each
\* when "B" is also taken as a second name
GroupPaths == {<<Txt_A, Txt_x>>, <<Txt_A, Txt_y>>, <<Txt_B>>, <<Txt_x>>}

\* the entries collect_items builds: a listed class and a non-empty path;
\* the entry at the end of a path of k names is node k
GroupEntries ==
    {NodeEntry(Len(p), c, p, None) : c \in {"Object", "Variable", "Method"}, p \in GroupPaths}

EntryLists == UNION {[1..k -> GroupEntries] : k \in 0..MaxEntries}

GroupInit ==
    /\ entries \in EntryLists
    /\ byClass = NotGrouped
    /\ byChild = NotGrouped
    /\ srvClass = [n \in Nodes |-> "Object"]
    /\ srvText = [n \in Nodes |-> DefaultText(n)]
    /\ srvChildren = [n \in Nodes |-> <<>>]
    /\ srvFail = NoFail
    /\ stack = <<>>
    /\ items = <<>>
    /\ pc = "group"
    /\ result = <<>>
    /\ pops = NoPops
    /\ text = <<>>
    /\ vtype = "String"
    /\ conv = NotConverted
    /\ NavIdle

GroupNext == GroupByClassCall \/ GroupByChildCall

GroupSpec == GroupInit /\ [][GroupNext]_vars

(***************************************************************************)
(* call_method run on one list of argument texts                           *)
(***************************************************************************)
MaxArgs == 2

\* the tags of the descriptors a method can have
ArgTags == {"Int16", "Boolean"}

\* "7", "abc"
ArgTexts == {<<55>>, <<97, 98, 99>>}

DescOutcomes ==
    {DescUnreadable} \cup
    {DescList(t) : t \in UNION {[1..k -> ArgTags] : k \in 0..MaxArgs}}

\* the state of a run that does not use the walker, the converter variables
\* or the groupings on their own
OthersIdle ==
    /\ stack = <<>>
    /\ items = <<>>
    /\ pc = "idle"
    /\ result = <<>>
    /\ pops = NoPops
    /\ text = <<>>
    /\ vtype = "String"
    /\ conv = NotConverted
    /\ GroupIdle

CallInit ==
    /\ variant \in {"mvc", "grouped"}
    /\ session = "connected"
    /\ disconnects = 0
    /\ nav = "call"
    /\ ended = "running"
    /\ menu = <<>>
    /\ sel = NodeEntry(2, "Method", <<Txt_B, Txt_a>>, Root)
    /\ cur = NoValue
    /\ inargs = <<>>
    /\ argTexts \in UNION {[1..k -> ArgTexts] : k \in 0..MaxArgs}
    /\ descReads = <<>>
    /\ outcome = NotCalled
    /\ asked = "none"
    /\ input = <<>>
    /\ shown = "none"
    /\ issued = <<>>
    /\ cfgFile = DefaultConfig
    /\ srvValue = [n \in Nodes |-> InitialValue]
    /\ srvType = [n \in Nodes |-> "String"]
    /\ srvClass = [n \in Nodes |-> IF n = Root THEN "Object" ELSE "Method"]
    /\ srvText = [n \in Nodes |-> DefaultText(n)]
    /\ srvChildren = [n \in Nodes |-> TreeChildren([c \in Nodes \ {Root} |-> Root], n)]
    /\ srvFail = NoFail
    /\ OthersIdle

\* one call of call_method(parent, method_node, arg_texts)
CallMethodCall ==
    /\ nav = "call"
    /\ outcome = NotCalled
    /\ \E desc \in DescOutcomes, invokeOk \in BOOLEAN :
         LET r == CallMethod(variant, desc, sel.parent_object, sel.node, argTexts,
                             invokeOk)
         IN  /\ descReads' = <<desc>>
             /\ outcome' = r.outcome
             /\ issued' = r.issued
    /\ UNCHANGED <<srvVars, walkVars, convVars, grpVars, variant, sessVars, nav,
                   ended, menu, sel, cur, inargs, argTexts, asked, input, shown,
                   srvValue, srvType, cfgFile>>

CallNext == CallMethodCall

CallSpec == CallInit /\ [][CallNext]_vars

(***************************************************************************)
(* The run of the controller against one server and one operator           *)
(***************************************************************************)
\* the tags the variables of the server can have
VarTags == {"Int16", "Double"}

\* what a read of the descriptors can give during a run
NavDescOutcomes ==
    {DescUnreadable, DescList(<<>>), DescList(<<"Int16">>),
     DescList(<<"Int16", "Boolean">>)}

\* the lines typed at a menu: the numbers 0 .. NumNodes + 1, "q", " Q",
\* "x", the empty line and the superscript two
MenuInputs ==
    {PyStr(n) : n \in 0..(NumNodes + 1)} \cup
    {Txt_q, <<32, 81>>, Txt_x, <<>>, <<178>>}

\* the lines typed in the loop of a variable: "b", "r", "w", "q", "x"
VariableInputs == {Txt_b, Txt_r, Txt_w, Txt_q, Txt_x}

\* the values typed for a write: "42.5", "7", "abc"
WriteTexts == {<<52, 50, 46, 53>>, <<55>>, <<97, 98, 99>>}

Prompts == {"root", "variable", "newvalue", "args", "pause"}

\* the flat hierarchy (every node a child of the root) and the deep one
\* (every node the child of the node before it)
NavShapes ==
    {[n \in Nodes \ {Root} |-> Root], [n \in Nodes \ {Root} |-> n - 1]}

NavInit ==
    /\ variant \in {"mvc", "grouped", "script"}
    /\ session = "closed"
    /\ disconnects = 0
    /\ nav = "start"
    /\ ended = "running"
    /\ menu = <<>>
    /\ sel = None
    /\ cur = NoValue
    /\ inargs = <<>>
    /\ argTexts = <<>>
    /\ descReads = <<>>
    /\ outcome = NotCalled
    /\ asked = "none"
    /\ input = <<>>
    /\ shown = "none"
    /\ issued = <<>>
    /\ cfgFile = DefaultConfig
    /\ srvValue = [n \in Nodes |-> InitialValue]
    /\ \E t \in VarTags : srvType = [n \in Nodes |-> t]
    /\ srvClass \in [Nodes -> NodeClasses]
    /\ srvClass[Root] \in {"Object", "Variable"}
    /\ srvText = [n \in Nodes |-> DefaultText(n)]
    /\ \E p \in NavShapes : srvChildren = [n \in Nodes |-> TreeChildren(p, n)]
    /\ srvFail = NoFail
    /\ OthersIdle

\* run(): `async with self.model` connects; then _main_loop starts. In
\* client/opc_controller.py its first statement reads the local `items`
\* before any assignment to it. main() of opc_client.py does the same with
\* `async with Client(url=endpoint)` and interact.
Run ==
    /\ nav = "start"
    /\ \E ok \in BOOLEAN :
         Becomes(IF ~ok
                 THEN [Here EXCEPT !.nav = "ended", !.ended = "connect raised"]
                 ELSE LET st == Connect(Here)
                      IN  IF variant = "grouped"
                          THEN Leave(st, "UnboundLocalError")
                          ELSE LoopTop([st EXCEPT !.shown = "info"]),
                 "none", <<>>)

\* the entry the line txt selects from the menu
Selected(txt) == menu[PyInt(Choice(txt)).value]

\* choice is a number and 0 <= index < len(items)
InRange(txt) ==
    /\ IsDigitText(Choice(txt))
    /\ ~PyInt(Choice(txt)).raised
    /\ PyInt(Choice(txt)).value - 1 >= 0
    /\ PyInt(Choice(txt)).value - 1 < Len(menu)

\* _main_loop: choice == "q": break; run() leaves `async with`
RootQuit ==
    /\ nav = "root"
    /\ \E txt \in MenuInputs :
         /\ Choice(txt) = Txt_q
         /\ Becomes(Leave([Fresh(Here) EXCEPT !.shown = "info"], "quit"), "root", txt)

\* _main_loop: not choice.isdigit(), or the index is out of range:
\* show_error and continue
RootReject ==
    /\ nav = "root"
    /\ \E txt \in MenuInputs :
         /\ Choice(txt) # Txt_q
         /\ ~IsDigitText(Choice(txt)) \/ ~PyInt(Choice(txt)).raised
         /\ ~InRange(txt)
         /\ Becomes(LoopTop([Fresh(Here) EXCEPT !.shown = "error"]), "root", txt)

\* _main_loop: choice.isdigit() holds and int(choice) raises ValueError
RootIntRaises ==
    /\ nav = "root"
    /\ \E txt \in MenuInputs :
         /\ Choice(txt) # Txt_q
         /\ IsDigitText(Choice(txt))
         /\ PyInt(Choice(txt)).raised
         /\ Becomes(Leave(Fresh(Here), "int raised"), "root", txt)

Dispatch_AnyMethod(entry) ==
    IF entry.node_class = "Variable" THEN "variable"
    ELSE IF entry.node_class = "Method" THEN "method"
    ELSE "pause"

\* _handle_selection: Variable -> _variable_interaction; Method and
\* entry.parent_object -> _method_interaction; else pause()
Dispatch(entry) ==
    IF entry.node_class = "Variable" THEN "variable"
    ELSE IF entry.node_class = "Method" /\ entry.parent_object # None THEN "method"
    ELSE "pause"

\* _handle_selection of a Variable: show_node_details, then
\* _variable_interaction up to its prompt
SelectVariable ==
    /\ nav = "root"
    /\ \E txt \in MenuInputs :
         /\ InRange(txt)
         /\ Dispatch(Selected(txt)) = "variable"
         /\ \E browseOk \in BOOLEAN, readOk \in BOOLEAN :
              LET st == [Fresh(Here) EXCEPT !.sel = Selected(txt)]
              IN  Becomes(IF ~browseOk THEN Leave(st, "read_browse_name raised")
                          ELSE ReadVariable(st, st.sel.node, readOk),
                          "root", txt)

\* _handle_selection of a Method that has a parent_object:
\* show_node_details, then _method_interaction up to its next prompt
SelectMethod ==
    /\ nav = "root"
    /\ \E txt \in MenuInputs :
         /\ InRange(txt)
         /\ Dispatch(Selected(txt)) = "method"
         /\ \E browseOk \in BOOLEAN, invokeOk \in BOOLEAN,
               desc1 \in NavDescOutcomes, desc2 \in NavDescOutcomes :
              LET st == [Fresh(Here) EXCEPT !.sel = Selected(txt)]
              IN  Becomes(IF ~browseOk THEN Leave(st, "read_browse_name raised")
                          ELSE MethodInteraction(st, desc1, desc2, invokeOk),
                          "root", txt)

\* _handle_selection of anything else: show_node_details, then pause()
SelectOther ==
    /\ nav = "root"
    /\ \E txt \in MenuInputs :
         /\ InRange(txt)
         /\ Dispatch(Selected(txt)) = "pause"
         /\ \E browseOk \in BOOLEAN :
              LET st == [Fresh(Here) EXCEPT !.sel = Selected(txt)]
              IN  Becomes(IF ~browseOk THEN Leave(st, "read_browse_name raised")
                          ELSE [st EXCEPT !.nav = "pause"],
                          "root", txt)

\* node.set_value(variant_value)
Write(node, value) == [op |-> "write", node |-> node, value |-> value]

\* _variable_interaction: the line typed at "[r] [w] [b]": "b" returns to
\* _main_loop, "r" reads again, "w" asks for the new value, anything else
\* is "Ungültige Eingabe." and the loop reads again
VariableInput ==
    /\ nav = "variable"
    /\ \E txt \in VariableInputs, readOk \in BOOLEAN :
         LET action == Choice(txt)
             st == Fresh(Here)
         IN  Becomes(IF action = Txt_b THEN LoopTop(st)
                     ELSE IF action = Txt_r THEN ReadVariable(st, st.sel.node, readOk)
                     ELSE IF action = Txt_w THEN [st EXCEPT !.nav = "newvalue"]
                     ELSE ReadVariable([st EXCEPT !.shown = "error"], st.sel.node, readOk),
                     "variable", txt)

WriteVariable_Unconverted(st, txt, writeOk) ==
    LET v == [type |-> "str", value |-> txt]
    IN  IF ~writeOk
        THEN [st EXCEPT !.shown = "error", !.issued = <<Write(st.sel.node, v)>>]
        ELSE [st EXCEPT !.shown = "info", !.issued = <<Write(st.sel.node, v)>>,
                        !.srvValue[st.sel.node] = v]

\* try: await self.model.write_variable(node, vtype, new_val);
\* show_info("Wert gesetzt.") / except Exception: show_error, with
\* write_variable converting the text before node.set_value
WriteVariable(st, txt, writeOk) ==
    LET c == ConvertStringToVariant(txt, st.cur.vtype)
    IN  IF c.raised THEN [st EXCEPT !.shown = "error"]
        ELSE IF ~writeOk
        THEN [st EXCEPT !.shown = "error",
                        !.issued = <<Write(st.sel.node, Parsed(c))>>]
        ELSE [st EXCEPT !.shown = "info",
                        !.issued = <<Write(st.sel.node, Parsed(c))>>,
                        !.srvValue[st.sel.node] = Parsed(c)]

\* _variable_interaction: the new value is typed: write_variable in
\* try / except Exception, then the loop reads again
NewValueInput ==
    /\ nav = "newvalue"
    /\ \E txt \in WriteTexts, writeOk \in BOOLEAN, readOk \in BOOLEAN :
         LET st == Fresh(Here)
         IN  Becomes(ReadVariable(WriteVariable(st, txt, writeOk), st.sel.node, readOk),
                     "newvalue", txt)

\* prompt_method_args: one text is typed; after the last one
\* _method_interaction goes on to call_method
ArgInput ==
    /\ nav = "args"
    /\ \E txt \in ArgTexts, invokeOk \in BOOLEAN, desc2 \in NavDescOutcomes :
         LET st == [Fresh(Here) EXCEPT !.argTexts = Append(@, txt)]
         IN  Becomes(IF variant = "script" THEN ScriptArgTyped(st, invokeOk)
                     ELSE IF Len(st.argTexts) # Len(st.inargs) THEN st
                     ELSE IF variant = "grouped" THEN GroupedCall(st, desc2, invokeOk)
                     ELSE CallAndPause(st, desc2, invokeOk),
                     "args", txt)

\* pause(): any line; the handler returns to the top of _main_loop, or the
\* exception that was on its way goes on and leaves the run
PauseEnter ==
    /\ nav = "pause"
    /\ Becomes(IF Pending(Here) THEN Leave(Fresh(Here), "conversion raised")
               ELSE LoopTop(Fresh(Here)),
               "pause", <<>>)

\* the operator interrupts the run at a prompt: the exception is no
\* Exception, no handler of the loop catches it
Interrupt ==
    /\ nav \in Prompts
    /\ Becomes(Leave(Fresh(Here), "interrupt"), nav, <<>>)

NavNext ==
    \/ Run
    \/ RootQuit
    \/ RootReject
    \/ RootIntRaises
    \/ SelectVariable
    \/ SelectMethod
    \/ SelectOther
    \/ VariableInput
    \/ NewValueInput
    \/ ArgInput
    \/ PauseEnter
    \/ Interrupt

NavSpec == NavInit /\ [][NavNext]_vars

(***************************************************************************)
(* The start of the program on one setup.txt                               *)
(***************************************************************************)
MaxLines == 2

ConfigLines ==
    {Cfg_Given, Cfg_Empty, Cfg_Spaced, Cfg_Bare, Cfg_Comment, Cfg_Other, <<>>}

\* no setup.txt, or one of up to MaxLines lines
ConfigFiles ==
    {[exists |-> FALSE, lines |-> <<>>]} \cup
    {[exists |-> TRUE, lines |-> l] :
        l \in UNION {[1..k -> ConfigLines] : k \in 0..MaxLines}}

ConfigInit ==
    /\ variant \in {"mvc", "grouped", "script"}
    /\ cfgFile \in ConfigFiles
    /\ session = "closed"
    /\ disconnects = 0
    /\ nav = "new"
    /\ ended = "running"
    /\ menu = <<>>
    /\ sel = None
    /\ cur = NoValue
    /\ inargs = <<>>
    /\ argTexts = <<>>
    /\ descReads = <<>>
    /\ outcome = NotCalled
    /\ asked = "none"
    /\ input = <<>>
    /\ shown = "none"
    /\ issued = <<>>
    /\ srvValue = [n \in Nodes |-> InitialValue]
    /\ srvType = [n \in Nodes |-> "Double"]
    /\ srvClass = [n \in Nodes |-> IF n = Root THEN "Object" ELSE "Variable"]
    /\ srvText = [n \in Nodes |-> DefaultText(n)]
    /\ srvChildren = [n \in Nodes |-> TreeChildren([c \in Nodes \ {Root} |-> Root], n)]
    /\ srvFail = NoFail
    /\ OthersIdle

\* ClientController(): load_config, then `if not endpoint: raise
\* ValueError(...)`, all before asyncio.run is entered. main() of
\* opc_client.py: load_config ends the process with sys.exit(1) when the
\* file is not found, and `if not endpoint:` prints and returns.
Construct ==
    /\ nav = "new"
    /\ LET c == LoadConfig(cfgFile)
           how == IF c.raised
                  THEN IF variant = "script" THEN "sys.exit(1)"
                       ELSE "FileNotFoundError"
                  ELSE IF CfgFalsy(c.value, Txt_endpoint)
                  THEN IF variant = "script" THEN "returned" ELSE "ValueError"
                  ELSE "running"
       IN  Becomes(IF how = "running" THEN [Here EXCEPT !.nav = "start"]
                   ELSE [Here EXCEPT !.nav = "ended", !.ended = how,
                                     !.shown = IF variant = "script" THEN "error"
                                               ELSE "none"],
                   "none", <<>>)

ConfigNext == Construct \/ Run

ConfigSpec == ConfigInit /\ [][ConfigNext]_vars

(***************************************************************************)
(* _child_loop of the grouped controller, called on a list of entries      *)
(***************************************************************************)
\* the lines typed at the list of a group: those of the menu, "b" and "m"
ChildInputs == MenuInputs \cup {Txt_b, Txt_m}

\* _child_loop(child, items) on a connected model, items being the entries
\* the walk of the server gives
ChildInit ==
    /\ variant = "grouped"
    /\ session = "connected"
    /\ disconnects = 0
    /\ nav = "child"
    /\ ended = "running"
    /\ sel = None
    /\ cur = NoValue
    /\ inargs = <<>>
    /\ argTexts = <<>>
    /\ descReads = <<>>
    /\ outcome = NotCalled
    /\ asked = "none"
    /\ input = <<>>
    /\ shown = "none"
    /\ issued = <<>>
    /\ cfgFile = DefaultConfig
    /\ srvValue = [n \in Nodes |-> InitialValue]
    /\ srvType = [n \in Nodes |-> "Double"]
    /\ srvClass \in [Nodes -> NodeClasses]
    /\ srvText = [n \in Nodes |-> DefaultText(n)]
    /\ \E p \in NavShapes : srvChildren = [n \in Nodes |-> TreeChildren(p, n)]
    /\ srvFail = NoFail
    /\ menu = CollectItems
    /\ OthersIdle

\* action == "m": return; action == "b": break, with nothing after the
\* loop: either way the coroutine returns None to its caller
ChildLeave ==
    /\ nav = "child"
    /\ \E txt \in ChildInputs :
         /\ Choice(txt) \in {Txt_m, Txt_b}
         /\ Becomes([Fresh(Here) EXCEPT !.nav = "returned"], "child", txt)

\* action == "q": raise SystemExit
ChildQuit ==
    /\ nav = "child"
    /\ \E txt \in ChildInputs :
         /\ Choice(txt) = Txt_q
         /\ Becomes([Fresh(Here) EXCEPT !.nav = "ended", !.ended = "SystemExit"],
                    "child", txt)

\* not action.isdigit(), or the index is out of range: show_error, continue
ChildReject ==
    /\ nav = "child"
    /\ \E txt \in ChildInputs :
         /\ Choice(txt) \notin {Txt_m, Txt_b, Txt_q}
         /\ ~IsDigitText(Choice(txt)) \/ ~PyInt(Choice(txt)).raised
         /\ ~InRange(txt)
         /\ Becomes([Fresh(Here) EXCEPT !.shown = "error"], "child", txt)

\* action.isdigit() holds and int(action) raises ValueError
ChildIntRaises ==
    /\ nav = "child"
    /\ \E txt \in ChildInputs :
         /\ Choice(txt) \notin {Txt_m, Txt_b, Txt_q}
         /\ IsDigitText(Choice(txt))
         /\ PyInt(Choice(txt)).raised
         /\ Becomes([Fresh(Here) EXCEPT !.nav = "ended", !.ended = "int raised"],
                    "child", txt)

\* entry.node_class == Method and entry.parent_object: _method_interaction
ChildSelectMethod ==
    /\ nav = "child"
    /\ \E txt \in ChildInputs :
         /\ InRange(txt)
         /\ Selected(txt).node_class = "Method"
         /\ Selected(txt).parent_object # None
         /\ \E desc1 \in NavDescOutcomes :
              Becomes(GroupedMethodInteraction(
                          [Fresh(Here) EXCEPT !.sel = Selected(txt)], desc1),
                      "child", txt)

\* any other entry: show_info("/".join(entry.path)), and the list again
ChildSelectOther ==
    /\ nav = "child"
    /\ \E txt \in ChildInputs :
         /\ InRange(txt)
         /\ ~(Selected(txt).node_class = "Method" /\ Selected(txt).parent_object # None)
         /\ Becomes([Fresh(Here) EXCEPT !.sel = Selected(txt), !.shown = "info"],
                    "child", txt)

\* show_method_details without descriptors: "[Enter] ausfuehren", then
\* call_method with no texts
ExecuteEnter ==
    /\ nav = "execute"
    /\ \E desc2 \in NavDescOutcomes, invokeOk \in BOOLEAN :
         Becomes(GroupedCall(Fresh(Here), desc2, invokeOk), "execute", <<>>)

ChildNext ==
    \/ ChildLeave
    \/ ChildQuit
    \/ ChildReject
    \/ ChildIntRaises
    \/ ChildSelectMethod
    \/ ChildSelectOther
    \/ ExecuteEnter
    \/ ArgInput

ChildSpec == ChildInit /\ [][ChildNext]_vars

(***************************************************************************)
(* The run against a server whose address space changes meanwhile          *)
(***************************************************************************)
\* an object with variables and methods beneath it; every read answers
LiveInit ==
    /\ variant \in {"mvc", "grouped", "script"}
    /\ session = "closed"
    /\ disconnects = 0
    /\ nav = "start"
    /\ ended = "running"
    /\ menu = <<>>
    /\ sel = None
    /\ cur = NoValue
    /\ inargs = <<>>
    /\ argTexts = <<>>
    /\ descReads = <<>>
    /\ outcome = NotCalled
    /\ asked = "none"
    /\ input = <<>>
    /\ shown = "none"
    /\ issued = <<>>
    /\ cfgFile = DefaultConfig
    /\ srvValue = [n \in Nodes |-> InitialValue]
    /\ srvType = [n \in Nodes |-> "Double"]
    /\ \E c \in [Nodes \ {Root} -> {"Variable", "Method"}] :
         srvClass = [n \in Nodes |-> IF n = Root THEN "Object" ELSE c[n]]
    /\ srvText = [n \in Nodes |-> DefaultText(n)]
    /\ srvChildren = [n \in Nodes |-> TreeChildren([c \in Nodes \ {Root} |-> Root], n)]
    /\ srvFail = NoFail
    /\ OthersIdle

\* while the client waits at a prompt the last node is taken from the
\* server (its reads raise from now on) or is put back
ServerChange ==
    /\ nav \in Prompts
    /\ srvFail' = [srvFail EXCEPT ![NumNodes] =
                      IF @ = {} THEN {"read_node_class"} ELSE {}]
    /\ UNCHANGED <<srvClass, srvText, srvChildren, walkVars, convVars, grpVars, navVars>>

LiveNext == NavNext \/ ServerChange

LiveSpec == LiveInit /\ [][LiveNext]_vars

(***************************************************************************)
(* collect_items on the hierarchies without a cycle                        *)
(***************************************************************************)
\* the references of a hierarchy in which every child is numbered above
\* its parent
DagEdges == {e \in Nodes \X Nodes : e[1] < e[2]}

\* what may fail on one node: nothing, the read of its name, the
\* enumeration of its children
DagFaults == {{}, {"read_display_name"}, {"get_children"}}

\* any set of such references, the root listing its first child a second
\* time or not (two references to one node), any of the faults on any node
DagInit ==
    /\ \E E \in SUBSET DagEdges, twice \in BOOLEAN :
         srvChildren = [n \in Nodes |->
            LET base == Ascending({v \in Nodes : <<n, v>> \in E})
            IN  IF twice /\ n = Root /\ base # <<>> THEN Append(base, base[1])
                ELSE base]
    /\ srvFail \in [Nodes -> DagFaults]
    /\ srvClass = [n \in Nodes |-> IF n = Root THEN "Object"
                                   ELSE IF n % 2 = 0 THEN "Other" ELSE "Variable"]
    /\ srvText = [n \in Nodes |-> DefaultText(n)]
    /\ stack = <<Frame(Root, <<>>, None)>>
    /\ items = <<>>
    /\ pc = "walk"
    /\ result = <<>>
    /\ pops = NoPops
    /\ text = <<>>
    /\ vtype = "String"
    /\ conv = NotConverted
    /\ GroupIdle
    /\ NavIdle

DagNext == WalkStep \/ WalkReturn

\* `while stack:` finds the stack empty and the function goes on to its
\* return (the step WalkReturn, named without the sorted list)
LoopExit == pc = "walk" /\ stack = <<>> /\ pc' = "done"

\* the coroutine is awaited to its end: an iteration that can run does
\* run, and so does the return once the loop is left
DagSpec == DagInit /\ [][DagNext]_vars /\ WF_vars(WalkStep) /\ WF_pc(LoopExit)

(***************************************************************************)
(* Facts about the remote address space, used to state the properties      *)
(***************************************************************************)
Front(s) == SubSeq(s, 1, Len(s) - 1)

Range(s) == {s[i] : i \in DOMAIN s}

ListedClasses == {"Object", "Variable", "Method"}

\* reading the node's kind or its display name fails
MetaFails(n) == srvFail[n] \cap {"read_node_class", "read_display_name"} # {}

\* enumerating the node's children fails
EnumFails(n) == "get_children" \in srvFail[n]

NoFaults == \A n \in Nodes : srvFail[n] = {}

Grow(S, E) == S \cup {v \in Nodes : \E u \in S \cap E : v \in Range(srvChildren[u])}

RECURSIVE ReachThrough(_, _)
\* the nodes reachable from S by child references that leave a node of E
ReachThrough(S, E) == IF Grow(S, E) = S THEN S ELSE ReachThrough(Grow(S, E), E)

Reachable == ReachThrough({Root}, Nodes)

\* reachable without passing an unreadable node
PastReadable == ReachThrough({Root}, {n \in Nodes : ~MetaFails(n)})

\* reachable without passing a node whose enumeration fails
PastEnumerable == ReachThrough({Root}, {n \in Nodes : ~EnumFails(n)})

\* reachable through nodes that are readable and enumerable
Walked == ReachThrough({Root}, {n \in Nodes : ~MetaFails(n) /\ ~EnumFails(n)})

ResultNodes == {result[i].node : i \in DOMAIN result}

InDegree(v) ==
    Cardinality({e \in Reachable \X (1..NumNodes) :
                    /\ e[2] \in DOMAIN srvChildren[e[1]]
                    /\ srvChildren[e[1]][e[2]] = v})

TreeShaped == InDegree(Root) = 0 /\ \A v \in Nodes : InDegree(v) <= 1

ListedReachable == {n \in Reachable : srvClass[n] \in ListedClasses}

RECURSIVE OnChain(_, _)
\* path is the display names along some chain of child references from the
\* root (included) down to n
OnChain(n, path) ==
    /\ path # <<>>
    /\ path[Len(path)] = NameOf(n)
    /\ IF Len(path) = 1 THEN n = Root
       ELSE \E u \in Nodes : n \in Range(srvChildren[u]) /\ OnChain(u, Front(path))

RECURSIVE OnVisit(_, _, _)
\* as OnChain, and owner is the nearest Object strictly above n on that
\* chain, None when the chain holds no Object above n
OnVisit(n, path, owner) ==
    /\ path # <<>>
    /\ path[Len(path)] = NameOf(n)
    /\ IF Len(path) = 1 THEN n = Root /\ owner = None
       ELSE \E u \in Nodes :
              /\ n \in Range(srvChildren[u])
              /\ IF srvClass[u] = "Object"
                 THEN owner = u /\ \E o \in Nodes \cup {None} : OnVisit(u, Front(path), o)
                 ELSE OnVisit(u, Front(path), owner)

RECURSIVE VisitsFrom(_, _, _), VisitsBelow(_, _, _, _)
\* how often a walk started at u, at most `depth` levels deep, pops n: once
\* if u is n, and once for every visit below each child the walk is given
VisitsFrom(u, n, depth) ==
    (IF u = n THEN 1 ELSE 0)
    + (IF depth = 0 \/ MetaFails(u) \/ EnumFails(u) THEN 0
       ELSE VisitsBelow(srvChildren[u], n, depth - 1, 1))

VisitsBelow(children, n, depth, i) ==
    IF i > Len(children) THEN 0
    ELSE VisitsFrom(children[i], n, depth) + VisitsBelow(children, n, depth, i + 1)

Visits(n) == VisitsFrom(Root, n, MaxDepth - 1)

EntriesOf(n) == {i \in DOMAIN result : result[i].node = n}

(***************************************************************************)
(* Properties of collect_items                                             *)
(***************************************************************************)
\* C1: a node whose kind or display name cannot be read yields no entry and
\* none of its children is pushed, so what is reachable only through it is
\* absent; every other readable Object/Variable/Method the walk meets is in
\* the result.
C1_UnreadableSkipped ==
    LET past == PastReadable
    IN  /\ \A i \in DOMAIN stack : stack[i].node \in past
        /\ \A i \in DOMAIN items : ~MetaFails(items[i].node)
        /\ pc = "done" =>
             /\ \A i \in DOMAIN result :
                  ~MetaFails(result[i].node) /\ result[i].node \in past
             /\ \A n \in Walked :
                  ~MetaFails(n) /\ srvClass[n] \in ListedClasses => n \in ResultNodes

\* a finished walk that met an unreadable node with children: they are
\* absent, the root is present
C1_Witness ==
    /\ pc = "done"
    /\ Root \in ResultNodes
    /\ \E bad \in Walked :
         /\ MetaFails(bad)
         /\ srvChildren[bad] # <<>>
         /\ Range(srvChildren[bad]) \cap ResultNodes = {}

\* C2: whatever reads fail, no exception leaves the walk; a node whose
\* children cannot be enumerated is walked as a node without children and
\* still yields its entry, and the rest of the graph is still walked.
C2_EnumFailureTolerated ==
    /\ pc # "raised"
    /\ LET past == PastEnumerable
       IN  /\ \A i \in DOMAIN stack : stack[i].node \in past
           /\ pc = "done" => ResultNodes \subseteq past
    /\ pc = "done" =>
         \A n \in Walked :
              /\ EnumFails(n) /\ ~MetaFails(n) /\ srvClass[n] \in ListedClasses
                    => EntriesOf(n) # {}
              /\ ~EnumFails(n) /\ ~MetaFails(n) /\ srvClass[n] \in ListedClasses
                    => EntriesOf(n) # {}

\* a finished walk that met a listed node whose enumeration fails although
\* the server holds children for it
C2_Witness ==
    /\ pc = "done"
    /\ \E n \in Walked :
         /\ EnumFails(n) /\ ~MetaFails(n)
         /\ srvChildren[n] # <<>>
         /\ n \in ResultNodes
         /\ Range(srvChildren[n]) \cap ResultNodes = {}

\* C3: on every finite graph, also one in which a node lists itself or an
\* ancestor among its children, the walk ends: it never enters an endless
\* descent.
C3_WalkTerminates == pc # "diverged"

\* C4: on a tree without failing reads the result holds exactly one entry
\* for each reachable Object/Variable/Method (the root counted), with that
\* node's handle and kind and a non-empty path.
C4_OneEntryPerListedNode ==
    (pc = "done" /\ TreeShaped /\ NoFaults) =>
        /\ Len(result) = Cardinality(ListedReachable)
        /\ \A n \in ListedReachable :
             /\ Cardinality(EntriesOf(n)) = 1
             /\ \A i \in EntriesOf(n) :
                  result[i].node_class = srvClass[n] /\ result[i].path # <<>>

\* a finished walk of a tree with at least two listed nodes and one that is
\* not listed
C4_Witness ==
    /\ pc = "done" /\ TreeShaped /\ NoFaults
    /\ Cardinality(ListedReachable) >= 2
    /\ Reachable = Nodes
    /\ ListedReachable # Reachable

\* C5: the result is ascending by the lower-cased "/"-joined path.
C5_SortedByLowerJoinedPath ==
    pc = "done" =>
        /\ Len(result) = Len(items)
        /\ \A i \in 1..(Len(result) - 1) :
             ~StrLess(Lower(Join(result[i + 1].path)), Lower(Join(result[i].path)))

\* a result in which folding the case decides the order of two neighbours,
\* and one whose order differs from the order of appending
C5_Witness ==
    /\ pc = "done"
    /\ result # items
    /\ \E i \in 1..(Len(result) - 1) :
         StrLess(Join(result[i + 1].path), Join(result[i].path))

\* C6 as claimed: every path is non-empty and holds the display names from
\* below the root down to the node, the root's own name left out.
C6_RootExcluded ==
    pc = "done" =>
        \A i \in DOMAIN result :
            /\ result[i].path # <<>>
            /\ OnChain(result[i].node, <<NameOf(Root)>> \o result[i].path)

\* C6 as amended: every path is non-empty and holds the display names from
\* the root down to the node, the root's own name first.
C6_PathFromRootIncluded ==
    pc = "done" =>
        \A i \in DOMAIN result :
            /\ result[i].path # <<>>
            /\ result[i].path[1] = NameOf(Root)
            /\ OnChain(result[i].node, result[i].path)

\* a result with the root's entry and an entry two levels below the root
C6_Witness ==
    /\ pc = "done"
    /\ Root \in ResultNodes
    /\ \E i \in DOMAIN result : Len(result[i].path) >= 3

\* C7 as claimed: every Method entry has an owner, the nearest Object above
\* it on its traversal path.
C7_ProcedureOwnerPresent ==
    pc = "done" =>
        \A i \in DOMAIN result :
            result[i].node_class = "Method" =>
                /\ result[i].parent_object # None
                /\ OnVisit(result[i].node, result[i].path, result[i].parent_object)

\* C7 as amended: a Method entry's owner is the nearest Object above it on
\* its traversal path, and None when no node above it is an Object.
C7_ProcedureOwnerNearestObject ==
    pc = "done" =>
        \A i \in DOMAIN result :
            result[i].node_class = "Method" =>
                OnVisit(result[i].node, result[i].path, result[i].parent_object)

\* a Method entry whose owner is not its direct parent: nodes of other
\* kinds lie between them
C7_Witness ==
    /\ pc = "done"
    /\ \E i \in DOMAIN result :
         /\ result[i].node_class = "Method"
         /\ result[i].parent_object # None
         /\ result[i].node \notin Range(srvChildren[result[i].parent_object])

\* C8 as claimed: an entry that is no Method has no owner.
C8_NonProcedureOwnerAbsent ==
    pc = "done" =>
        \A i \in DOMAIN result :
            result[i].node_class # "Method" => result[i].parent_object = None

\* C8 as amended: an entry that is no Method carries the nearest Object
\* strictly above it on its traversal path, as a Method does; None only when
\* no node above it is an Object.
C8_NonProcedureOwnerNearestObject ==
    pc = "done" =>
        \A i \in DOMAIN result :
            result[i].node_class # "Method" =>
                OnVisit(result[i].node, result[i].path, result[i].parent_object)

\* a Variable entry and an Object entry that both carry an owner
C8_Witness ==
    /\ pc = "done"
    /\ \E i \in DOMAIN result :
         result[i].node_class = "Variable" /\ result[i].parent_object # None
    /\ \E i \in DOMAIN result :
         result[i].node_class = "Object" /\ result[i].parent_object # None

\* C9: nothing is deduplicated: a listed node has one entry for every visit
\* of it, so a child of two visited parents and two nodes with one path all
\* keep their entries.
C9_NoDeduplication ==
    pc = "done" =>
        \A n \in Nodes :
            Cardinality(EntriesOf(n)) =
                IF MetaFails(n) \/ srvClass[n] \notin ListedClasses THEN 0
                ELSE Visits(n)

\* a result that holds one node twice and two nodes under one path
C9_Witness ==
    /\ pc = "done"
    /\ \E i, j \in DOMAIN result : i # j /\ result[i].node = result[j].node
    /\ \E i, j \in DOMAIN result :
         result[i].node # result[j].node /\ result[i].path = result[j].path

\* the chains of references from the root along which the walk descends:
\* every node but the last was read and enumerated
Chains ==
    {c \in UNION {[1..k -> Nodes] : k \in 1..MaxDepth} :
        /\ c[1] = Root
        /\ \A i \in 1..(Len(c) - 1) :
              /\ c[i + 1] \in Range(srvChildren[c[i]])
              /\ ~MetaFails(c[i])
              /\ ~EnumFails(c[i])}

\* the names along a chain
ChainPath(c) == [i \in 1..Len(c) |-> NameOf(c[i])]

\* the nearest Object strictly above the last node of a chain, None when
\* there is none
OwnerOn(c) ==
    LET above == {i \in 1..(Len(c) - 1) : srvClass[c[i]] = "Object"}
    IN  IF above = {} THEN None
        ELSE c[CHOOSE i \in above : \A j \in above : j <= i]

\* a node that is read and is of a listed kind
Shown(n) == ~MetaFails(n) /\ srvClass[n] \in ListedClasses

\* C33 as claimed: a readable node of kind Other has no entry; every
\* readable Object, Variable or Method the walk reaches below it has an
\* entry whose path holds the Other node's name at the Other node's level
\* and whose owner is the nearest Object above the Other node.
C33_OwnerAboveOtherNode ==
    pc = "done" =>
        \A x \in Nodes : (srvClass[x] = "Other" /\ ~MetaFails(x)) =>
            /\ x \notin ResultNodes
            /\ \A c \in Chains : \A k \in 1..(Len(c) - 1) :
                  (c[k] = x /\ Shown(c[Len(c)])) =>
                      \E i \in DOMAIN result :
                          /\ result[i].node = c[Len(c)]
                          /\ result[i].path = ChainPath(c)
                          /\ result[i].path[k] = NameOf(x)
                          /\ result[i].parent_object = OwnerOn(SubSeq(c, 1, k))

\* C33 as amended: a readable node of kind Other has no entry; every
\* readable Object, Variable or Method the walk reaches below it has an
\* entry whose path holds the Other node's name at the Other node's level
\* and whose owner is the nearest Object above that descendant itself: the
\* Other node is never the owner, an Object between the two is.
C33_OtherNodeTransparent ==
    pc = "done" =>
        \A x \in Nodes : (srvClass[x] = "Other" /\ ~MetaFails(x)) =>
            /\ x \notin ResultNodes
            /\ \A c \in Chains : \A k \in 1..(Len(c) - 1) :
                  (c[k] = x /\ Shown(c[Len(c)])) =>
                      \E i \in DOMAIN result :
                          /\ result[i].node = c[Len(c)]
                          /\ result[i].path = ChainPath(c)
                          /\ result[i].path[k] = NameOf(x)
                          /\ result[i].parent_object = OwnerOn(c)

\* a Method directly below an Other node that lies below the Object at
\* the root: its entry names the root as owner, three names in its path
C33_Witness ==
    /\ pc = "done"
    /\ srvClass[Root] = "Object"
    /\ \E x \in Range(srvChildren[Root]) :
          /\ srvClass[x] = "Other"
          /\ x \notin ResultNodes
          /\ \E i \in DOMAIN result :
                /\ result[i].node \in Range(srvChildren[x])
                /\ result[i].node_class = "Method"
                /\ result[i].path = <<NameOf(Root), NameOf(x), NameOf(result[i].node)>>
                /\ result[i].parent_object = Root

\* C32: on a hierarchy without a cycle the walk ends whatever reads fail:
\* the stack becomes empty and the list is returned; a node is popped once
\* for every chain of references that leads to it from the root through
\* nodes that were read and enumerated, never more often, and exactly that
\* often once the walk has ended.
C32_AcyclicWalkTerminates ==
    /\ [](\A n \in Nodes : pops[n] <= Visits(n))
    /\ [](pc = "done" => (stack = <<>> /\ \A n \in Nodes : pops[n] = Visits(n)))
    /\ <>(pc = "done")

\* a finished walk that has popped an unreadable node twice, along two
\* chains, and has never popped the node below it
C32_Witness ==
    /\ pc = "done"
    /\ stack = <<>>
    /\ \E n \in Nodes : pops[n] = 2 /\ MetaFails(n) /\ srvChildren[n] # <<>>
    /\ \E n \in Nodes : pops[n] = 0

(***************************************************************************)
(* Properties of _convert_string_to_variant                                *)
(***************************************************************************)
Converted == conv # NotConverted

\* no digit at all, or a code point that is no digit, sign, blank or
\* underscore: text that denotes no integer under any reading
NotAnInteger(t) ==
    \/ \A i \in 1..Len(t) : ~IsDigit(t[i])
    \/ \E i \in 1..Len(t) :
         ~(IsDigit(t[i]) \/ IsSign(t[i]) \/ IsSpace(t[i]) \/ IsUnderscore(t[i]))

\* the values a 16-bit tag or an unsigned tag can hold; the wider bounds
\* lie beyond every text of the model
InTagRange(vt, n) ==
    /\ vt = "Int16" => n >= -32768 /\ n <= 32767
    /\ vt = "UInt16" => n >= 0 /\ n <= 65535
    /\ vt \in {"UInt32", "UInt64"} => n >= 0
    /\ vt = "Int32" => n >= -2147483647 - 1 /\ n <= 2147483647

\* C10: for an integer tag the converter fails on text that is no integer
\* and on text denoting an integer outside the tag's range; it returns no
\* out-of-range value.
C10_IntegerOutOfRangeRejected ==
    (Converted /\ vtype \in IntegerTypes) =>
        /\ NotAnInteger(text) => conv.raised
        /\ ~conv.raised => InTagRange(vtype, conv.value)

\* C11: for every integer tag and every integer n the tag can hold, the
\* converter applied to str(n) returns n.
C11_IntegerRoundTrip ==
    (Converted /\ vtype \in IntegerTypes) =>
        \A n \in RoundTripInts :
            (InTagRange(vtype, n) /\ text = PyStr(n)) =>
                conv = [raised |-> FALSE, type |-> "int", value |-> n]

\* the lowest 16-bit value, a negative number of six characters, came back
C11_Witness ==
    /\ Converted
    /\ vtype = "Int16"
    /\ text = PyStr(-32768)
    /\ conv.value = -32768

\* C12: for the Boolean tag the converter never fails; the result is true
\* exactly for "1", "true", "t", "yes", "y" written in any mix of cases and
\* false for every other text.
C12_BooleanNeverFails ==
    (Converted /\ vtype = "Boolean") =>
        /\ ~conv.raised
        /\ conv.type = "bool"
        /\ conv.value = (text \in TrueSpellings)

\* "YES" gave true
C12_Witness ==
    /\ Converted
    /\ vtype = "Boolean"
    /\ text = <<89, 69, 83>>
    /\ conv.value = TRUE

(***************************************************************************)
(* Properties of the groupings                                             *)
(***************************************************************************)
Grouped(g) == g # NotGrouped

\* keys strictly ascending in the order of str
KeysAscending(d) ==
    \A i \in 1..(Len(d) - 1) : StrLess(d[i].key, d[i + 1].key)

\* how often e occurs in the sequence s
Count(e, s) == Cardinality({i \in DOMAIN s : s[i] = e})

RECURSIVE CountInGroups(_, _)
\* how often e occurs in all the lists of the dict d together
CountInGroups(e, d) ==
    IF d = <<>> THEN 0 ELSE Count(e, d[1].items) + CountInGroups(e, Tail(d))

RECURSIVE TotalGrouped(_)
TotalGrouped(d) == IF d = <<>> THEN 0 ELSE Len(d[1].items) + TotalGrouped(Tail(d))

\* every entry of the input lies in exactly one list of d, there as often as
\* in the input, and the lists hold nothing else
Partitions(d) ==
    /\ TotalGrouped(d) = Len(entries)
    /\ \A e \in Range(entries) :
         /\ CountInGroups(e, d) = Count(e, entries)
         /\ Cardinality({g \in DOMAIN d : e \in Range(d[g].items)}) = 1

\* C13: _group_by_class returns as keys exactly the class names present
\* among the entries, each once, in ascending order, and under each key the
\* entries of that class in the order they have in the input.
C13_GroupByKind ==
    Grouped(byClass) =>
        /\ ~byClass.raised
        /\ LET d == byClass.value
           IN  /\ Range(DictKeys(d)) = {ClassName(e.node_class) : e \in Range(entries)}
               /\ KeysAscending(d)
               /\ \A g \in DOMAIN d :
                    d[g].items =
                      SelectSeq(entries, LAMBDA e : ClassName(e.node_class) = d[g].key)

\* entries of the kinds Object, Variable, Method, Object: three keys, and
\* the two Objects, which differ, under one key
C13_Witness ==
    /\ Grouped(byClass)
    /\ [i \in DOMAIN entries |-> entries[i].node_class]
          = <<"Object", "Variable", "Method", "Object">>
    /\ entries[1] # entries[4]
    /\ DictKeys(byClass.value) = <<ClassName("Method"), ClassName("Object"),
                                   ClassName("Variable")>>
    /\ byClass.value[2].items = <<entries[1], entries[4]>>

\* C14: _group_by_child puts every entry under its second name when its path
\* has more than one name and under its only name otherwise, with the keys
\* ascending; the paths [A,x], [A,y], [B] give the keys B, x, y.
C14_GroupByFirstSegment ==
    Grouped(byChild) =>
        /\ ~byChild.raised
        /\ LET d == byChild.value
               expected(e) == IF Len(e.path) > 1 THEN e.path[2] ELSE e.path[1]
           IN  /\ KeysAscending(d)
               /\ \A e \in Range(entries) :
                    \E g \in DOMAIN d : d[g].key = expected(e) /\ e \in Range(d[g].items)
               /\ \A g \in DOMAIN d :
                    \A i \in DOMAIN d[g].items : expected(d[g].items[i]) = d[g].key
               /\ [i \in DOMAIN entries |-> entries[i].path]
                      = <<(<<Txt_A, Txt_x>>), (<<Txt_A, Txt_y>>), (<<Txt_B>>)>>
                    => DictKeys(d) = <<Txt_B, Txt_x, Txt_y>>

\* the paths [A,x], [x], [B]: a second name and an only name share the key
\* "x", and "B" comes first
C14_Witness ==
    /\ Grouped(byChild)
    /\ [i \in DOMAIN entries |-> entries[i].path]
          = <<(<<Txt_A, Txt_x>>), (<<Txt_x>>), (<<Txt_B>>)>>
    /\ DictKeys(byChild.value) = <<Txt_B, Txt_x>>
    /\ Len(byChild.value[2].items) = 2

\* what C15 asks of one grouping that has run
TotalPartition(g) ==
    Grouped(g) =>
        /\ ~g.raised
        /\ entries = <<>> => g.value = <<>>
        /\ Partitions(g.value)

\* C15: neither grouping raises, whatever the entries, the empty list
\* gives an empty dict, the groups partition the input (checked of each
\* dict when it is returned), and no step of a grouping changes the list it
\* was handed or an entry of it.
C15_GroupingsTotalAndPure ==
    [][ /\ entries' = entries
        /\ byClass' # byClass => TotalPartition(byClass)'
        /\ byChild' # byChild => TotalPartition(byChild)' ]_vars

\* both groupings have run on a list that holds one entry twice and an
\* entry of a path of one name
C15_Witness ==
    /\ Grouped(byClass) /\ Grouped(byChild)
    /\ Len(entries) = MaxEntries
    /\ \E i, j \in DOMAIN entries : i # j /\ entries[i] = entries[j]
    /\ \E i \in DOMAIN entries : Len(entries[i].path) = 1
    /\ Len(byClass.value) > 1 /\ Len(byChild.value) > 1

(***************************************************************************)
(* Properties of the run                                                   *)
(***************************************************************************)
\* C16: at the menu and inside the loop of a variable the input "q" ends
\* the run: after a handler has worked on "q" given at one of these prompts
\* the run has ended by quitting.
C16_QuitEverywhere ==
    (asked \in {"root", "variable"} /\ Choice(input) = Txt_q) =>
        (nav = "ended" /\ ended = "quit")

\* C17: once connect has succeeded the session is released on every way
\* out of run(): disconnect is called exactly once, never while the loop
\* still prompts, and the session is released when the run has ended.
C17_SessionReleasedOnEveryExit ==
    /\ disconnects <= 1
    /\ nav \in Prompts => (session = "connected" /\ disconnects = 0)
    /\ session = "connected" => (nav # "ended" /\ disconnects = 0)
    /\ (nav = "ended" /\ ended # "connect raised") =>
          (session = "released" /\ disconnects = 1)
    /\ ended = "connect raised" => (session = "closed" /\ disconnects = 0)

\* the operator interrupts the run while it asks for a new value, two
\* loops deep: the session is released
C17_Witness ==
    /\ nav = "ended"
    /\ ended = "interrupt"
    /\ asked = "newvalue"
    /\ session = "released"
    /\ disconnects = 1

\* C18: a failing read of a selected variable's value or type, or of a
\* selected node's details, does not end the run.
C18_ReadFailuresDoNotEndRun ==
    ended \notin {"read_variable raised", "read_browse_name raised"}

\* C21: the interaction with a method ends at its closing prompt with a
\* result or an error displayed, with no invoke sent when the call failed
\* before it (unreadable descriptors, argument count, conversion), and the
\* line typed at that prompt leads back to the menu.
C21_ProcedureReturnsToMenu ==
    /\ (nav = "pause" /\ descReads # <<>>) =>
          /\ shown \in {"result", "error"}
          /\ shown = "result" <=> outcome = InvokeResult
          /\ outcome \notin {InvokeResult, InvokeFailed} => issued = <<>>
    /\ (asked = "pause" /\ ended # "interrupt") => nav = "root"

\* C22: a write whose text does not convert, or whose remote write fails,
\* shows an error and goes back to the top of the same loop, where the
\* variable is read again: the operator is at the prompt of the loop, not
\* at the menu, unless that read fails in its turn; a text that does not
\* convert sends no write, and "Wert gesetzt." is shown only for a write
\* that was sent and stored.
C22_WriteFailureStaysInLoop ==
    (asked = "newvalue" /\ ended # "interrupt") =>
        LET inLoop == nav = "variable"
            readRaised == nav = "ended" /\ ended = "read_variable raised"
            readShown == variant = "script" /\ nav = "root" /\ shown = "error"
        IN  /\ inLoop \/ readRaised \/ readShown
            /\ inLoop =>
                  LET c == ConvertStringToVariant(input, cur.vtype)
                      sent == <<Write(sel.node, Parsed(c))>>
                  IN  /\ shown \in {"error", "info"}
                      /\ c.raised => (shown = "error" /\ issued = <<>>)
                      /\ ~c.raised => issued = sent
                      /\ shown = "info" => srvValue[sel.node] = Parsed(c)

\* "abc" is typed for an Int16 variable: the error, no write, and the loop
\* asks again
C22_Witness ==
    /\ asked = "newvalue"
    /\ input = <<97, 98, 99>>
    /\ nav = "variable"
    /\ cur.vtype = "Int16"
    /\ shown = "error"
    /\ issued = <<>>

\* the line names one of the numbers 1 .. n
NumberWithin(txt, n) == \E i \in 1..n : Strip(txt) = PyStr(i)

\* C23: at the menu a line that is neither "q" nor one of the numbers
\* 1 .. len(items) is answered with an error and the menu again, nothing
\* being sent; and an interaction is only ever entered for the entry that a
\* number of 1 .. len(items) names.
C23_InvalidInputRejected ==
    /\ (asked = "root" /\ ended # "interrupt" /\ Choice(input) # Txt_q
          /\ ~NumberWithin(input, Len(menu))) =>
             (nav = "root" /\ shown = "error" /\ issued = <<>>)
    /\ (asked = "root" /\ nav \in {"variable", "args", "pause"}) =>
          \E i \in 1..Len(menu) : Strip(input) = PyStr(i) /\ sel = menu[i]

\* C24: every step of the run that leads to the menu (the start, a
\* rejected line, the return from an interaction) walks the server anew:
\* the list of the menu is the walk of the address space as it is at that
\* step (the server does not change within it), whatever list an earlier
\* menu showed.
C24_MenuWalkedAnew ==
    [][(nav' = "root" /\ srvVars' = srvVars) => menu' = CollectItems]_vars

\* back at the menu after the loop of a variable, a node having been taken
\* from the server meanwhile: the menu no longer lists it
C24_Witness ==
    /\ nav = "root"
    /\ asked = "variable"
    /\ srvFail # NoFail
    /\ menu = CollectItems
    /\ Len(menu) < NumNodes

\* C25: the controller of the grouped menus, once connected, displays its
\* root menu and takes the number k for the k-th group: its run is at a
\* prompt, or was ended there by the operator, and never ends before the
\* first line is typed.
C25_GroupEnteredByNumber ==
    (variant = "grouped" /\ session # "closed") =>
        /\ nav \in Prompts \/ nav = "ended"
        /\ nav = "ended" => (asked \in Prompts /\ ended \in {"quit", "interrupt"})

\* C29: what the loop of a variable displays is what the server answered
\* to the read made for that display; after "Wert gesetzt." it is the
\* converted value that was written, read back from the server that
\* stored it.
C29_WrittenValueReadBack ==
    nav = "variable" =>
        /\ cur = [vtype |-> srvType[sel.node], value |-> srvValue[sel.node]]
        /\ (asked = "newvalue" /\ shown = "info") =>
              cur.value = Parsed(ConvertStringToVariant(input, cur.vtype))

\* "42.5" was written to a Double variable: 42.5 is displayed
C29_Witness ==
    /\ nav = "variable"
    /\ asked = "newvalue"
    /\ shown = "info"
    /\ input = <<52, 50, 46, 53>>
    /\ cur.vtype = "Double"
    /\ cur.value # InitialValue
    /\ cur.value = Parsed(PyFloat(input))
    /\ ~PyFloat(input).raised

\* C30: whatever a handler sends to the server is for the entry that was
\* selected from the list: a write goes to a selected Variable, an invoke
\* to a selected Method that has an owning object, with that object's
\* handle and the method's own; for an Object, an unlisted class or a
\* Method without owner nothing is sent.
C30_DispatchByKind ==
    \A k \in DOMAIN issued :
        \E i \in DOMAIN menu :
            /\ menu[i].node = issued[k].node
            /\ nav # "root" => sel = menu[i]
            /\ issued[k].op = "write" => menu[i].node_class = "Variable"
            /\ issued[k].op = "invoke" =>
                  /\ menu[i].node_class = "Method"
                  /\ menu[i].parent_object # None
                  /\ issued[k].parent = menu[i].parent_object

\* a Method without owning object was selected: its details are shown and
\* the closing prompt follows, nothing having been sent
C30_Witness ==
    /\ nav = "pause"
    /\ asked = "root"
    /\ sel.node_class = "Method"
    /\ sel.parent_object = None
    /\ descReads = <<>>
    /\ issued = <<>>

(***************************************************************************)
(* Properties of the list of a group                                       *)
(***************************************************************************)
\* C26: at the list of a group "b" goes up one level, to the caller of the
\* loop, while "m" leads to the root menu.
C26_BackCommandsDistinct ==
    /\ (asked = "child" /\ Choice(input) = Txt_b) => nav = "returned"
    /\ (asked = "child" /\ Choice(input) = Txt_m) => nav = "root"

\* C27: the number of a Variable typed at the list of a group enters the
\* interaction with the variable: its type and value are read and shown
\* and the operator is asked for r / w / b.
C27_DataPointInteractionEntered ==
    (asked = "child" /\ NumberWithin(input, Len(menu))
       /\ menu[PyInt(Strip(input)).value].node_class = "Variable") =>
        /\ nav = "variable"
        /\ cur = [vtype |-> srvType[sel.node], value |-> srvValue[sel.node]]

(***************************************************************************)
(* Properties of the start of the program                                  *)
(***************************************************************************)
\* the lines that name the endpoint, and those of them that give it a value
NamesEndpoint(line) == line \in {Cfg_Given, Cfg_Empty, Cfg_Spaced, Cfg_Bare}

GivesEndpoint(line) == line \in {Cfg_Given, Cfg_Spaced}

\* setup.txt exists and gives no endpoint: no line names it, or the last
\* line that names it leaves the value empty
NoEndpoint(file) ==
    /\ file.exists
    /\ \A i \in DOMAIN file.lines :
          GivesEndpoint(file.lines[i]) =>
              \E j \in DOMAIN file.lines : j > i /\ NamesEndpoint(file.lines[j])
                                              /\ ~GivesEndpoint(file.lines[j])

\* C28: with a setup.txt that gives no endpoint the program fails before
\* it connects: the session is never opened, no connect is attempted, and
\* the process ends with a status other than 0.
C28_MissingEndpointFailsFast ==
    NoEndpoint(cfgFile) =>
        /\ session = "closed"
        /\ nav \in {"new", "ended"}
        /\ nav = "ended" => (ended # "connect raised" /\ ExitStatus(ended) # 0)

\* a handler has talked to the server in this step: it has walked the
\* address space for the menu, read a variable, read descriptors, written
\* a value or sent an invoke
RemoteCallStep ==
    \/ nav' = "root"
    \/ cur' # NoValue
    \/ descReads' # <<>>
    \/ issued' # <<>>
    \/ srvValue' # srvValue

\* C31: every remote call is made while the session is connected: the
\* assertion on the client never fails, a handler that talks to the server
\* starts connected or has just connected, nothing is asked of the server
\* while connect has not succeeded, and nothing after disconnect.
C31_RemoteCallsWhileConnected ==
    [][ /\ ended' # "AssertionError"
        /\ outcome' # AssertionError
        /\ RemoteCallStep => (session = "connected" \/ session' = "connected")
        /\ session' = "closed" =>
              (menu' = <<>> /\ cur' = NoValue /\ descReads' = <<>> /\ issued' = <<>>)
        /\ session = "released" => ~RemoteCallStep ]_vars

\* a run of controller.py has walked the address space, read the
\* descriptors of a method and sent its invoke, and is still connected
C31_Witness ==
    /\ variant = "mvc"
    /\ session = "connected"
    /\ nav = "pause"
    /\ menu # <<>>
    /\ descReads # <<>>
    /\ issued # <<>>
    /\ issued[1].op = "invoke"

\* C34: _method_interaction reads the descriptors to prompt and
\* call_method reads them again: when both reads give the same list, one
\* text was typed for each descriptor and the argument-count error is not
\* raised; the argument-count error is raised only when the second read
\* gave something else than the first.
C34_CountMismatchOnlyWhenReadsDiffer ==
    (nav = "pause" /\ Len(descReads) = 2) =>
        LET d1 == descReads[1]
            d2 == descReads[2]
        IN  /\ (~d1.raised /\ ~d2.raised /\ d2.value = d1.value) =>
                  /\ Len(argTexts) = Len(d1.value)
                  /\ outcome # ArgCountMismatch
            /\ outcome = ArgCountMismatch =>
                  \/ d1.raised # d2.raised
                  \/ (~d1.raised /\ ~d2.raised /\ d2.value # d1.value)

\* both reads gave the same two descriptors, two texts were typed and the
\* method was invoked with two values
C34_Witness ==
    /\ variant = "mvc"
    /\ nav = "pause"
    /\ Len(descReads) = 2
    /\ descReads[1] = DescList(<<"Int16", "Boolean">>)
    /\ descReads[2] = DescList(<<"Int16", "Boolean">>)
    /\ Len(argTexts) = 2
    /\ issued # <<>>
    /\ Len(issued[1].args) = 2

(***************************************************************************)
(* Properties of call_method                                               *)
(***************************************************************************)
Called == outcome # NotCalled

\* C19: when the number of texts differs from the number of descriptors
\* call_method has read, it raises the argument-count error and sends no
\* invoke; an invoke is only ever sent with as many values as descriptors.
C19_CountMismatchBeforeInvoke ==
    (nav = "call" /\ Called) =>
        LET d == descReads[1]
            n == IF d.raised THEN 0 ELSE Len(d.value)
        IN  /\ ((~d.raised \/ Lenient(variant)) /\ n # Len(argTexts)) =>
                  (outcome = ArgCountMismatch /\ issued = <<>>)
            /\ issued # <<>> =>
                  (n = Len(argTexts) /\ Len(issued[1].args) = n)

\* two descriptors were read, one text was given: the error, and no invoke
C19_Witness ==
    /\ nav = "call" /\ Called
    /\ ~descReads[1].raised
    /\ Len(descReads[1].value) = 2
    /\ Len(argTexts) = 1
    /\ outcome = ArgCountMismatch
    /\ issued = <<>>

\* C20: when the descriptors of a selected method cannot be read, the
\* operator is asked for no value and the method is invoked with no
\* arguments; the flow does not fail for the unreadable descriptors.
C20_UnreadableMeansNoArguments ==
    (nav = "pause" /\ descReads # <<>>
       /\ \A i \in DOMAIN descReads : descReads[i].raised) =>
        /\ argTexts = <<>>
        /\ outcome \in {InvokeResult, InvokeFailed}
        /\ issued = <<Invoke(sel.parent_object, sel.node, <<>>)>>

====
